---- MODULE Spec2Model ----
(***************************************************************************)
(* State-machine model of the attendance system's persistence-and-domain   *)
(* core: the record store of src/lib/storage.ts (localStorage blob,        *)
(* rotated snapshots, write-failure handling) and the attendance domain of *)
(* src/lib/attendance.ts (save, saveBulk, update, delete, retention        *)
(* cleanup, admin-PIN lockout, on-time classification).                    *)
(*                                                                         *)
(* Time is counted in milliseconds from a model epoch that falls on local  *)
(* midnight.  A record's `date` (toLocaleDateString) is represented by the *)
(* number of its local calendar day.                                       *)
(***************************************************************************)
EXTENDS Integers, Sequences, FiniteSets, TLC

VARIABLES
  records,    \* localStorage['prefect_attendance_records']: the persisted list
  blobKind,   \* what that key holds: "list", "absent", "unparsable", "notList"
  integrityHash, \* localStorage['data_integrity_hash']: whether it is stored,
              \* and the list it is the fingerprint of
  metadata,   \* whether localStorage['attendance_backup_metadata'] is stored
  backups,    \* the rotated snapshots, keys 'attendance_backup_[manual_]<ts>'
  exported,   \* the string createManualBackup last returned to its caller
  pc,         \* the frames of the store call in progress, innermost last
  nextId,     \* number of ids crypto.randomUUID() has handed out so far
  adminStore, \* localStorage['admin_failed_attempts'], ['admin_lockout_time']
  now,        \* the host clock, Date.now()
  probe,      \* the timestamp handed to the on-time classification sites
  verdict,    \* what the classification sites answered for `probe`
  last,       \* the outcome of the most recent call, as its caller sees it
  session,    \* sessionStorage['emergency_backup']
  lastBackup, \* localStorage['last_automatic_backup']
  backupTimer, \* the host time at which the backup interval fires next;
              \* OmittedNum while no page holds the store
  version,    \* localStorage['attendance_storage_version']
  listeners,  \* the registered storage listeners, in order of registration
  delivered,  \* the listener invocations of the most recent step, in order
  events,     \* storage events queued for this process, oldest first
  tabs,       \* per process: the addRecord call it is in the middle of
  remote      \* the records the out-of-process store of the alternative
              \* transport holds

vars == <<records, blobKind, integrityHash, metadata, backups, exported, pc,
          nextId, adminStore, now, probe, verdict, last, session, lastBackup,
          backupTimer, version, listeners, delivered, events, tabs, remote>>

-----------------------------------------------------------------------------
(* Bounds of the model                                                     *)

MaxId == 2          \* ids handed out in one behaviour
MaxFaults == 2      \* scripted storage-write outcomes per call
MaxBulk == 2        \* entries in one saveBulk call
MaxUpdateFields == 1 \* fields present in one Partial<AttendanceRecord>
MaxTicks == 8       \* clock advances in one behaviour
MaxHashLen == 3     \* records in one list handed to generateDataHash
MaxStoreIds == 1     \* records added by direct addRecord calls
MaxFrames == 7       \* frames of one call the call stack holds
MaxRecords == 1200   \* records in the largest store
MaxHalfDays == 3     \* half days the clock of the backup subsystem advances
MaxEvents == 2       \* storage events queued for one process
MaxTally == 2        \* records in a list handed to the statistics

-----------------------------------------------------------------------------
(* Values                                                                  *)

MsPerMinute == 60 * 1000
MsPerHour == 60 * MsPerMinute
MsPerDay == 24 * MsPerHour

PrefectNumbers == {"42", "7"}
Roles == {"Senior"}

\* A field left out of a Partial<AttendanceRecord>, or a key not in localStorage.
Omitted == "<omitted>"
OmittedNum == -1

\* crypto.randomUUID() values are numbered 1, 2, ...; 0 is no id.
NoId == 0
Ids == 1..MaxId

\* Marking instants: day 0 at 06:30, day 0 at 08:15, day 1 at 07:00.
Timestamps == {6 * MsPerHour + 30 * MsPerMinute,
               8 * MsPerHour + 15 * MsPerMinute,
               MsPerDay + 7 * MsPerHour}

\* Date.prototype.toLocaleDateString: the local calendar day of an instant.
LocalDateString(ts) == ts \div MsPerDay

Dates == {LocalDateString(ts) : ts \in Timestamps}


NoRecord == [id |-> NoId, prefectNumber |-> "", role |-> "",
             timestamp |-> OmittedNum, date |-> OmittedNum]

-----------------------------------------------------------------------------
(* Record Store (src/lib/storage.ts)                                       *)

\* The structural check of getRecords, restore and recovery: every required
\* field is truthy.
IsValidRecord(r) ==
  /\ r.id # NoId
  /\ r.prefectNumber # ""
  /\ r.role # ""
  /\ r.timestamp # OmittedNum

\* getRecords as it would be without the structural check.
GetRecordsUnfiltered(blob) == blob

\* getRecords: the persisted entries that pass the structural check, in order.
GetRecords(blob) == SelectSeq(blob, IsValidRecord)

\* What one saveRecords call meets in the host: "ok"; "pressure" (quota usage
\* above 90%, the write succeeds); "quota" (setItem throws QuotaExceededError);
\* "io" (setItem throws another error).
Outcomes == {"ok", "pressure", "quota", "io"}

\* The outcomes the successive saveRecords calls of one operation meet, first
\* call first; calls beyond the script meet "ok", so a script never ends in it.
Scripts(outcomes) ==
  {f \in UNION {[1..n -> outcomes] : n \in 0..MaxFaults} :
     f = <<>> \/ f[Len(f)] # "ok"}

\* The domain operations run on a store far below the eviction threshold and
\* the snapshot limit, where quota pressure alone changes nothing.
FaultScripts == Scripts({"ok", "quota", "io"})

Outcome(f) == IF f = <<>> THEN "ok" ELSE Head(f)
Rest(f) == IF f = <<>> THEN <<>> ELSE Tail(f)

\* The startup snapshot and every later one: creation time, kind, records.
Snapshot(ts, manual, recs) == [ts |-> ts, manual |-> manual, records |-> recs]

KeepBackups == 5
EvictAbove == 1000
EvictKeep == 800

\* sort((a, b) => b.timestamp - a.timestamp) over the keys that start with
\* 'attendance_backup_': a snapshot comes before every older one.  The filter
\* also matches the metadata entry 'attendance_backup_metadata', whose
\* parseInt is NaN, so the comparator is inconsistent and the order the host
\* enumerates the keys in decides where that entry ends up.  metaFirst tells
\* which of two hosts it is: one that enumerates the metadata entry first, and
\* a manual key before an automatic one (the sort leaves the entry first, and
\* snapshots of one creation time in that order), or one that enumerates the
\* keys in ascending order (the sort leaves the entry last, and the automatic
\* snapshot before the manual one of the same creation time).
Before(b, c, metaFirst) ==
  \/ b.ts > c.ts
  \/ b.ts = c.ts /\ b.manual # c.manual /\ b.manual = metaFirst

\* The first n snapshots in that order.
FirstSnapshots(bs, n, metaFirst) ==
  {b \in bs : Cardinality({c \in bs : Before(c, b, metaFirst)}) < n}

\* cleanOldBackups: every key after the first KeepBackups of the sorted keys
\* is removed, the metadata entry included when it is one of them.
CleanOldBackups(st, metaFirst) ==
  IF ~st.meta
  THEN [st EXCEPT !.backups = FirstSnapshots(st.backups, KeepBackups, metaFirst)]
  ELSE IF metaFirst
  THEN [st EXCEPT !.backups = FirstSnapshots(st.backups, KeepBackups - 1, metaFirst)]
  ELSE [st EXCEPT !.backups = FirstSnapshots(st.backups, KeepBackups, metaFirst),
                  !.meta = Cardinality(st.backups) < KeepBackups]

\* getLatestBackup as it would be if it consulted the emergency snapshot of
\* sessionStorage first.
GetLatestBackupOrEmergency(bs, metaFirst) ==
  IF session.set THEN session.records
  ELSE IF metaFirst \/ bs = {} THEN <<>>
  ELSE (CHOOSE b \in bs : \A c \in bs \ {b} : Before(b, c, metaFirst)).records

\* getLatestBackup: the records of the first of the sorted keys.  The metadata
\* entry holds no records field, so it reads as an empty record list.
GetLatestBackup(bs, metaFirst) ==
  IF metaFirst \/ bs = {}
  THEN <<>>
  ELSE (CHOOSE b \in bs : \A c \in bs \ {b} : Before(b, c, metaFirst)).records

\* records.sort((a, b) => b.timestamp - a.timestamp): stable, most recent
\* first; the records of the greatest timestamp in the order they had, then
\* those of the next one, and so on.
Maximum(values) == CHOOSE v \in values : \A w \in values : w <= v

RECURSIVE SortedByValues(_, _)
SortedByValues(s, values) ==
  IF values = {} THEN <<>>
  ELSE SelectSeq(s, LAMBDA r : r.timestamp = Maximum(values))
       \o SortedByValues(s, values \ {Maximum(values)})

SortByTimestampDesc(s) ==
  SortedByValues(s, {s[i].timestamp : i \in 1..Len(s)})

FirstN(s, n) == IF Len(s) <= n THEN s ELSE SubSeq(s, 1, n)

RECURSIVE SaveRecords(_, _, _, _)

\* A store state is [records, kind, hash, meta, backups, notified]; every store operation
\* returns [st, f, threw]: the store afterwards, the script left, whether it
\* raised.
Ret(st, f, threw) == [st |-> st, f |-> f, threw |-> threw]

\* try { ... } catch { log }: the callee's effects stay, its error does not.
Swallow(r) == Ret(r.st, r.f, FALSE)

\* catch (error) { handleStorageError(error); throw error }.
Raise(r) == Ret(r.st, r.f, TRUE)

\* data.sort((a, b) => a.id.localeCompare(b.id)): stable, ascending by id.
RECURSIVE SortById(_)
SortById(s) ==
  IF s = <<>> THEN <<>>
  ELSE LET m == CHOOSE i \in 1..Len(s) :
                  /\ \A j \in 1..Len(s) : s[i].id <= s[j].id
                  /\ \A j \in 1..(i - 1) : s[i].id < s[j].id
       IN <<s[m]>> \o SortById(
            [k \in 1..(Len(s) - 1) |-> IF k < m THEN s[k] ELSE s[k + 1]])

\* The UTF-16 code units of the strings records hold.
CharCodes(str) ==
  CASE str = "42" -> <<52, 50>>
    [] str = "7" -> <<55>>
    [] str = "4" -> <<52>>
    [] str = "Senior" -> <<83, 101, 110, 105, 111, 114>>
    [] str = "2.0.0" -> <<50, 46, 48, 46, 48>>
    [] OTHER -> <<>>

\* The decimal digits of a number, as code units.
RECURSIVE Digits(_)
Digits(n) == IF n < 10 THEN <<48 + n>> ELSE Digits(n \div 10) \o <<48 + (n % 10)>>

\* "key":"value" as JSON.stringify writes it; a field that is not there is
\* not written.
Quoted(chars) == <<34>> \o chars \o <<34>>
Member(key, chars) == Quoted(key) \o <<58>> \o Quoted(chars)

RECURSIVE JoinWithCommas(_)
JoinWithCommas(parts) ==
  IF parts = <<>> THEN <<>>
  ELSE IF Len(parts) = 1 THEN parts[1]
  ELSE parts[1] \o <<44>> \o JoinWithCommas(Tail(parts))

\* JSON.stringify of one record: id, prefectNumber, role, timestamp, date, and
\* the markers of a migrated record.
StringifyRecord(r) ==
  <<123>>
  \o JoinWithCommas(
       (IF r.id # NoId THEN <<Member(<<105, 100>>, Digits(r.id))>> ELSE <<>>)
       \o (IF r.prefectNumber # Omitted
           THEN <<Member(<<112, 114, 101, 102, 101, 99, 116, 78, 117, 109, 98,
                          101, 114>>, CharCodes(r.prefectNumber))>>
           ELSE <<>>)
       \o (IF r.role # Omitted
           THEN <<Member(<<114, 111, 108, 101>>, CharCodes(r.role))>> ELSE <<>>)
       \o (IF r.timestamp # OmittedNum
           THEN <<Member(<<116, 105, 109, 101, 115, 116, 97, 109, 112>>,
                         Digits(r.timestamp))>>
           ELSE <<>>)
       \o (IF r.date # OmittedNum
           THEN <<Member(<<100, 97, 116, 101>>, Digits(r.date))>> ELSE <<>>)
       \o (IF "migrated" \in DOMAIN r
           THEN <<Quoted(<<109, 105, 103, 114, 97, 116, 101, 100>>)
                  \o <<58, 116, 114, 117, 101>>>>
           ELSE <<>>)
       \o (IF "version" \in DOMAIN r
           THEN <<Member(<<118, 101, 114, 115, 105, 111, 110>>,
                         CharCodes(r.version))>>
           ELSE <<>>))
  \o <<125>>

\* JSON.stringify of a record list.
Stringify(recs) ==
  <<91>> \o JoinWithCommas([i \in 1..Len(recs) |-> StringifyRecord(recs[i])])
  \o <<93>>

\* hash = ((hash << 5) - hash) + char; hash = hash & hash: 31 * hash + char in
\* 32 bits, kept as the two 16-bit halves [hi, lo] of the bit pattern.
HashStep(h, char) ==
  [lo |-> (31 * h.lo + char) % 65536,
   hi |-> (31 * h.hi + (31 * h.lo + char) \div 65536) % 65536]

\* The loop over the code units from..to, left to right, started at the
\* 32-bit value h.
RECURSIVE HashFrom(_, _, _, _)
HashFrom(h, chars, from, to) ==
  IF from > to \/ h.hi \notin 0..65535 THEN h
  ELSE IF from = to THEN HashStep(h, chars[from])
  ELSE HashFrom(HashFrom(h, chars, from, (from + to) \div 2),
                chars, (from + to) \div 2 + 1, to)

\* The base-36 digits of a non-negative number, most significant first.
RECURSIVE Base36(_)
Base36(n) == IF n < 36 THEN <<n>> ELSE Base36(n \div 36) \o <<n % 36>>

\* hash.toString(36) of the signed 32-bit value with that bit pattern.
ToString36(h) ==
  IF h.hi < 32768
  THEN [negative |-> FALSE, digits |-> Base36(h.hi * 65536 + h.lo)]
  ELSE IF h.hi = 32768 /\ h.lo = 0
  THEN [negative |-> TRUE, digits |-> <<35, 18, 20, 0, 35, 20>>]
  ELSE [negative |-> TRUE,
        digits |-> Base36((65535 - h.hi) * 65536 + (65536 - h.lo))]

\* The loop over a whole string from hash = 0, and the rendering of its result.
HashString(chars) ==
  ToString36(HashFrom([hi |-> 0, lo |-> 0], chars, 1, Len(chars)))

\* generateDataHash: sort by id, serialize, hash, render.
GenerateDataHash(data) == HashString(Stringify(SortById(data)))

\* The array generateDataHash was given, after the call: data.sort sorts the
\* array itself and returns it.
SortedInPlace(data) == SortById(data)

\* The stored fingerprint of a list, kept as the list it was computed from.
HashOf(recs) == [set |-> TRUE, of |-> recs]
NoHash == [set |-> FALSE, of |-> <<>>]

\* localStorage.setItem(ATTENDANCE_RECORDS, ...) succeeding after the quota
\* check, followed by the fingerprint, notifyListeners(records) and the backup
\* metadata.
Written(r, recs) ==
  Ret([r.st EXCEPT !.records = recs, !.kind = "list", !.hash = HashOf(recs),
                   !.meta = TRUE, !.notified = Append(@, recs)],
      r.f, FALSE)

\* handleQuotaExceeded: prune snapshots, then evict down to the most recent
\* EvictKeep records if more than EvictAbove are live; never raises.
HandleQuotaExceeded(st, f, metaFirst) ==
  IF Len(GetRecords(st.records)) > EvictAbove
  THEN Swallow(SaveRecords(CleanOldBackups(st, metaFirst),
                           FirstN(SortByTimestampDesc(GetRecords(st.records)),
                                  EvictKeep),
                           f, metaFirst))
  ELSE Ret(CleanOldBackups(st, metaFirst), f, FALSE)

\* attemptDataRecovery on a readable store: rewrite it from the latest
\* snapshot; with no 'attendance_backup_' key at all nothing is written,
\* because getRecords has already dropped the invalid entries.
AttemptDataRecovery(st, f, metaFirst) ==
  IF st.backups = {} /\ ~st.meta
  THEN Ret(st, f, FALSE)
  ELSE Swallow(SaveRecords(st, GetLatestBackup(st.backups, metaFirst /\ st.meta),
                           f, metaFirst))

\* handleStorageError: eviction on a quota error, recovery otherwise.
HandleStorageError(st, f, metaFirst, quotaError) ==
  IF quotaError
  THEN HandleQuotaExceeded(st, f, metaFirst)
  ELSE AttemptDataRecovery(st, f, metaFirst)

\* saveRecords as it would be if its catch block ended without `throw error`.
SaveRecordsQuiet(st, recs, f, metaFirst) ==
  CASE Outcome(f) = "ok" -> Written(Ret(st, Rest(f), FALSE), recs)
    [] Outcome(f) = "pressure" ->
         Written(HandleQuotaExceeded(st, Rest(f), metaFirst), recs)
    [] OTHER ->
         Swallow(HandleStorageError(st, Rest(f), metaFirst, Outcome(f) = "quota"))

\* saveRecords: quota check, write, and on a failed write the error handling
\* followed by a re-raise.
SaveRecords(st, recs, f, metaFirst) ==
  CASE Outcome(f) = "ok" -> Written(Ret(st, Rest(f), FALSE), recs)
    [] Outcome(f) = "pressure" ->
         Written(HandleQuotaExceeded(st, Rest(f), metaFirst), recs)
    [] OTHER ->
         Raise(HandleStorageError(st, Rest(f), metaFirst, Outcome(f) = "quota"))

\* addRecord: read, append, saveRecords.
AddRecord(st, rec, f, metaFirst) ==
  SaveRecords(st, Append(GetRecords(st.records), rec), f, metaFirst)

\* A Partial<AttendanceRecord>: each field a value or left out.
NoUpdates == [id |-> NoId, prefectNumber |-> Omitted, role |-> Omitted,
              timestamp |-> OmittedNum, date |-> OmittedNum]

FieldsPresent(u) ==
  (IF u.id # NoId THEN 1 ELSE 0) + (IF u.prefectNumber # Omitted THEN 1 ELSE 0)
  + (IF u.role # Omitted THEN 1 ELSE 0) + (IF u.timestamp # OmittedNum THEN 1 ELSE 0)
  + (IF u.date # OmittedNum THEN 1 ELSE 0)

\* The partial updates the model draws from; "" is an emptied prefectNumber.
Updates ==
  {u \in [id : Ids \cup {NoId},
          prefectNumber : PrefectNumbers \cup {"", Omitted},
          role : Roles \cup {Omitted},
          timestamp : Timestamps \cup {OmittedNum},
          date : Dates \cup {OmittedNum}] : FieldsPresent(u) <= MaxUpdateFields}

\* { ...records[index], ...updates }: every field present in updates wins.
Merge(r, u) ==
  [id |-> IF u.id # NoId THEN u.id ELSE r.id,
   prefectNumber |-> IF u.prefectNumber # Omitted THEN u.prefectNumber
                     ELSE r.prefectNumber,
   role |-> IF u.role # Omitted THEN u.role ELSE r.role,
   timestamp |-> IF u.timestamp # OmittedNum THEN u.timestamp ELSE r.timestamp,
   date |-> IF u.date # OmittedNum THEN u.date ELSE r.date]

\* findIndex(r => r.id === id): the first position holding id, 0 if none.
FindIndex(recs, id) ==
  IF \E i \in 1..Len(recs) : recs[i].id = id
  THEN CHOOSE i \in 1..Len(recs) :
         recs[i].id = id /\ \A j \in 1..(i - 1) : recs[j].id # id
  ELSE 0

\* updateRecord: NotFound without a write, else merge in place and saveRecords.
\* Returns [st, f, threw, rec].
Returning(w, rec) == [st |-> w.st, f |-> w.f, threw |-> w.threw, rec |-> rec]

UpdateRecord(st, id, u, f, metaFirst) ==
  IF FindIndex(GetRecords(st.records), id) = 0
  THEN Returning(Ret(st, f, TRUE), NoRecord)
  ELSE LET recs == GetRecords(st.records)
           index == FindIndex(recs, id)
       IN Returning(SaveRecords(st, [recs EXCEPT ![index] = Merge(recs[index], u)],
                                f, metaFirst),
                    Merge(recs[index], u))

\* deleteRecord as it would be if, like updateRecord, it raised on an id that
\* is not stored.
DeleteRecordStrict(st, id, f, metaFirst) ==
  IF FindIndex(GetRecords(st.records), id) = 0
  THEN Ret(st, f, TRUE)
  ELSE SaveRecords(st, SelectSeq(GetRecords(st.records), LAMBDA r : r.id # id),
                   f, metaFirst)

\* deleteRecord: filter the id out and saveRecords.
DeleteRecord(st, id, f, metaFirst) ==
  SaveRecords(st, SelectSeq(GetRecords(st.records), LAMBDA r : r.id # id),
              f, metaFirst)

\* What saveRecords is called with: a record list, something that is not a
\* list, or a list whose JSON text is longer than MAX_STORAGE_SIZE.
ListArg(recs) == [kind |-> "list", records |-> recs]
NotAListArg == [kind |-> "notList", records |-> <<>>]
OversizeArg == [kind |-> "oversize", records |-> <<>>]

\* saveRecords from its first statement on: the Array.isArray check throws
\* before the quota check, the size check after it; both throws reach the
\* same catch as a failed write, as errors that are not quota errors.  Such a
\* call uses up its entry of the script without reaching the write.
SaveRecordsCall(st, arg, f, metaFirst) ==
  CASE arg.kind = "notList" ->
         Raise(HandleStorageError(st, Rest(f), metaFirst, FALSE))
    [] arg.kind = "oversize" /\ Outcome(f) = "pressure" ->
         Raise(HandleStorageError(HandleQuotaExceeded(st, Rest(f), metaFirst).st,
                                  HandleQuotaExceeded(st, Rest(f), metaFirst).f,
                                  metaFirst, FALSE))
    [] arg.kind = "oversize" /\ Outcome(f) # "pressure" ->
         Raise(HandleStorageError(st, Rest(f), metaFirst, FALSE))
    [] OTHER -> SaveRecords(st, arg.records, f, metaFirst)

\* What attemptDataRecovery returns: true unless the saveRecords it makes
\* from the latest snapshot raises.
RecoveryResult(st, f, metaFirst) ==
  IF st.backups = {} /\ ~st.meta
  THEN TRUE
  ELSE ~SaveRecords(st, GetLatestBackup(st.backups, metaFirst /\ st.meta),
                    f, metaFirst).threw

\* A store operation that also returns a value: [st, f, threw, value].
Valued(w, value) == [st |-> w.st, f |-> w.f, threw |-> w.threw, value |-> value]

\* verifyDataIntegrity as it would be without the recovery branch.
VerifyDataIntegrityNoRecovery(st, f, metaFirst) ==
  IF Outcome(f) \in {"quota", "io"}
  THEN Valued(Ret(st, Rest(f), FALSE), FALSE)
  ELSE Valued(Ret([st EXCEPT !.hash = HashOf(GetRecords(st.records))],
                  Rest(f), FALSE),
              TRUE)

\* verifyDataIntegrity: a stored fingerprint that differs from the one of the
\* live records sends it to recovery; otherwise it stores the fingerprint of
\* the live records.  A failed write of the fingerprint is caught: false.
VerifyDataIntegrity(st, f, metaFirst) ==
  IF st.hash.set
     /\ GenerateDataHash(st.hash.of) # GenerateDataHash(GetRecords(st.records))
  THEN Valued(AttemptDataRecovery(st, f, metaFirst),
              RecoveryResult(st, f, metaFirst))
  ELSE IF Outcome(f) \in {"quota", "io"}
  THEN Valued(Ret(st, Rest(f), FALSE), FALSE)
  ELSE Valued(Ret([st EXCEPT !.hash = HashOf(GetRecords(st.records))],
                  Rest(f), FALSE),
              TRUE)

\* The snapshot key 'attendance_backup_[manual_]<ts>' written anew: an earlier
\* snapshot under the same key is replaced.
WithSnapshot(bs, snap) ==
  {b \in bs : b.ts # snap.ts \/ b.manual # snap.manual} \cup {snap}

\* A backup string as restoreFromBackup sees it after JSON.parse: kind is
\* "valid" (an object whose records field is a list, each entry as its JSON
\* text), "noRecords" (an object without that field), "notList" (the field is
\* not a list), "null" (the JSON text null), "unparsable" (not JSON).
Payload(kind, texts) == [kind |-> kind, records |-> texts]

\* JSON.stringify of the records of a backup, entry by entry.
StringifyEach(recs) == [i \in 1..Len(recs) |-> StringifyRecord(recs[i])]

\* createManualBackup: serialize the live records, keep a snapshot under the
\* manual key, return the string; a failed write of the snapshot raises and
\* nothing is returned.
CreateManualBackup(st, f, nowMs) ==
  IF Outcome(f) \in {"quota", "io"}
  THEN Valued(Ret(st, Rest(f), TRUE), Payload("none", <<>>))
  ELSE Valued(Ret([st EXCEPT !.backups =
                     WithSnapshot(st.backups,
                                  Snapshot(nowMs, TRUE, GetRecords(st.records)))],
                  Rest(f), FALSE),
              Payload("valid", StringifyEach(GetRecords(st.records))))

\* The records JSON.parse can meet in a backup string.
ParseUniverse ==
  [id : Ids \cup {NoId}, prefectNumber : PrefectNumbers \cup {""}, role : Roles,
   timestamp : Timestamps \cup {OmittedNum}, date : Dates \cup {OmittedNum}]

\* JSON.parse of one entry, tabulated: from the JSON text to the record.
ParseTable ==
  [text \in {StringifyRecord(r) : r \in ParseUniverse} |->
     CHOOSE r \in ParseUniverse : StringifyRecord(r) = text]

ParseRecord(text) ==
  IF text \in DOMAIN ParseTable THEN ParseTable[text] ELSE NoRecord

ParseEach(texts) == [i \in 1..Len(texts) |-> ParseRecord(texts[i])]

\* The error restoreFromBackup's caller sees when its saveRecords raised.
Restored(w) == Valued(w, IF w.threw THEN "SaveFailed" ELSE "ok")

\* restoreFromBackup as it would be if it added the payload's records to the
\* live ones.
RestoreFromBackupMerging(st, payload, f, metaFirst) ==
  CASE payload.kind = "unparsable" -> Valued(Ret(st, f, TRUE), "SyntaxError")
    [] payload.kind = "null" -> Valued(Ret(st, f, TRUE), "TypeError")
    [] payload.kind \in {"noRecords", "notList"} ->
         Valued(Ret(st, f, TRUE), "Invalid backup format")
    [] OTHER ->
         Restored(SaveRecords(st,
                              GetRecords(st.records)
                              \o SelectSeq(ParseEach(payload.records), IsValidRecord),
                              f, metaFirst))

\* restoreFromBackup: parse, check the records field, keep the structurally
\* valid entries, saveRecords; every error is logged and raised again.  value
\* is the error the caller sees, "ok" if none.
RestoreFromBackup(st, payload, f, metaFirst) ==
  CASE payload.kind = "unparsable" -> Valued(Ret(st, f, TRUE), "SyntaxError")
    [] payload.kind = "null" -> Valued(Ret(st, f, TRUE), "TypeError")
    [] payload.kind \in {"noRecords", "notList"} ->
         Valued(Ret(st, f, TRUE), "Invalid backup format")
    [] OTHER ->
         Restored(SaveRecords(st, SelectSeq(ParseEach(payload.records),
                                            IsValidRecord),
                              f, metaFirst))

BACKUP_INTERVAL == 24 * 60 * 60 * 1000

\* A backup operation also hands back what 'last_automatic_backup' holds:
\* [st, f, threw, lastBackup].
Timed(w, lastB) == [st |-> w.st, f |-> w.f, threw |-> w.threw, lastBackup |-> lastB]

\* performAutomaticBackup: write the snapshot of the live records under the
\* key of the creation time, record that time as the last automatic backup,
\* prune.  The script tells the outcome of the first write and then of the
\* second; a failed write is logged and ends the backup there.
PerformAutomaticBackup(st, lastB, f, metaFirst, nowMs) ==
  IF Outcome(f) \in {"quota", "io"}
  THEN Timed(Ret(st, Rest(f), FALSE), lastB)
  ELSE IF Outcome(Rest(f)) \in {"quota", "io"}
  THEN Timed(Ret([st EXCEPT !.backups =
                    WithSnapshot(st.backups,
                                 Snapshot(nowMs, FALSE, GetRecords(st.records)))],
                 Rest(Rest(f)), FALSE),
             lastB)
  ELSE Timed(Ret(CleanOldBackups(
                   [st EXCEPT !.backups =
                      WithSnapshot(st.backups,
                                   Snapshot(nowMs, FALSE, GetRecords(st.records)))],
                   metaFirst),
                 Rest(Rest(f)), FALSE),
             nowMs)

\* checkAndPerformBackup as it would be if a last backup exactly one interval
\* old were due already.
CheckAndPerformBackupAtInterval(st, lastB, f, metaFirst, nowMs) ==
  IF lastB = OmittedNum \/ nowMs - lastB >= BACKUP_INTERVAL
  THEN PerformAutomaticBackup(st, lastB, f, metaFirst, nowMs)
  ELSE Timed(Ret(st, f, FALSE), lastB)

\* checkAndPerformBackup: lastB is OmittedNum when the key is not stored; the
\* code then takes 0, the Unix epoch, which lies more than a day before any
\* instant of the model.
CheckAndPerformBackup(st, lastB, f, metaFirst, nowMs) ==
  IF lastB = OmittedNum \/ nowMs - lastB > BACKUP_INTERVAL
  THEN PerformAutomaticBackup(st, lastB, f, metaFirst, nowMs)
  ELSE Timed(Ret(st, f, FALSE), lastB)

\* What sessionStorage['emergency_backup'] holds.
Emergency(nowMs, recs) == [set |-> TRUE, timestamp |-> nowMs, records |-> recs]

\* getRecords as a store operation: on text that is not JSON its catch block
\* runs recovery, which rewrites the store from a backup entry, and returns
\* [].
GetRecordsRecovering(st, f, metaFirst) ==
  IF st.kind = "unparsable"
  THEN Valued(Swallow(AttemptDataRecovery(st, f, metaFirst)), <<>>)
  ELSE Valued(Ret(st, f, FALSE),
              IF st.kind = "list" THEN GetRecords(st.records) ELSE <<>>)

\* The write of the emergency snapshot: a failed one is logged.
EmergencyWritten(r, sess, nowMs) ==
  [st |-> r.st,
   session |-> IF Outcome(r.f) \in {"quota", "io"} THEN sess
               ELSE Emergency(nowMs, r.value)]

\* performEmergencyBackup: what getRecords returns goes to sessionStorage.
\* Yields the store and what sessionStorage holds afterwards.
PerformEmergencyBackup(st, sess, f, metaFirst, nowMs) ==
  EmergencyWritten(GetRecordsRecovering(st, f, metaFirst), sess, nowMs)

STORAGE_VERSION == "2.0.0"

\* { ...record, migrated: true, version: STORAGE_VERSION }: the record's own
\* fields, and the two markers added or overwritten.
Migrate(r) == [migrated |-> TRUE, version |-> STORAGE_VERSION] @@ r

MigrateEach(recs) == [i \in 1..Len(recs) |-> Migrate(recs[i])]

\* migrateStorage: read, stamp every record, saveRecords; a failure is raised
\* again as Error('Failed to migrate storage data').
MigrateStorage(st, f, metaFirst) ==
  SaveRecords(st, MigrateEach(GetRecords(st.records)), f, metaFirst)

\* initializeStorage hands back the stored schema version too:
\* [st, f, threw, version].
Versioned(w, ver) == [st |-> w.st, f |-> w.f, threw |-> FALSE, version |-> ver]

\* The last statement of initializeStorage's try block.
InitializeVerified(w, ver, metaFirst) ==
  Versioned(VerifyDataIntegrity(w.st, w.f, metaFirst), ver)

\* initializeStorage from the test of the records key on: an absent key is
\* initialized with saveRecords([]); an error goes to handleStorageError.
InitializeSaved(w, quotaError, ver, metaFirst) ==
  IF w.threw
  THEN Versioned(HandleStorageError(w.st, w.f, metaFirst, quotaError), ver)
  ELSE InitializeVerified(w, ver, metaFirst)

InitializeRecords(w, ver, metaFirst) ==
  IF w.st.kind = "absent"
  THEN InitializeSaved(SaveRecords(w.st, <<>>, w.f, metaFirst),
                       Outcome(w.f) = "quota", ver, metaFirst)
  ELSE InitializeVerified(w, ver, metaFirst)

\* initializeStorage after migrateStorage: a failed migration goes to
\* handleStorageError as an error that is not a quota error and the version
\* stays; otherwise the current version is stored, and a failure of that
\* write goes to handleStorageError.
InitializeMigrated(w, ver, metaFirst) ==
  IF w.threw
  THEN Versioned(HandleStorageError(w.st, w.f, metaFirst, FALSE), ver)
  ELSE IF Outcome(w.f) \in {"quota", "io"}
  THEN Versioned(HandleStorageError(w.st, Rest(w.f), metaFirst,
                                    Outcome(w.f) = "quota"),
                 ver)
  ELSE InitializeRecords(Ret(w.st, Rest(w.f), FALSE), STORAGE_VERSION, metaFirst)

\* initializeStorage as it would be if it never migrated.
InitializeStorageUnmigrated(st, ver, f, metaFirst) ==
  IF ver # STORAGE_VERSION
  THEN InitializeMigrated(Ret(st, f, FALSE), ver, metaFirst)
  ELSE InitializeRecords(Ret(st, f, FALSE), ver, metaFirst)

\* initializeStorage: ver is the stored schema version, Omitted if none.
InitializeStorage(st, ver, f, metaFirst) ==
  IF ver # STORAGE_VERSION
  THEN InitializeMigrated(MigrateStorage(st, f, metaFirst), ver, metaFirst)
  ELSE InitializeRecords(Ret(st, f, FALSE), ver, metaFirst)

-----------------------------------------------------------------------------
(* Attendance Domain (src/lib/attendance.ts)                               *)

MAX_DAYS == 999999999
MAX_FAILED_ATTEMPTS == 10
LOCKOUT_DURATION == 15 * 60 * 1000
ADMIN_PIN == "apple"

\* The host's Date range: TimeClip turns an instant more than 10^8 days from
\* the epoch into an Invalid Date (NaN).
MaxTimeDays == 10 ^ 8

\* checkDuplicateAttendance: some live record has that exact triple.
CheckDuplicateAttendance(st, prefectNumber, role, date) ==
  \E i \in 1..Len(GetRecords(st.records)) :
    LET r == GetRecords(st.records)[i]
    IN r.prefectNumber = prefectNumber /\ r.role = role /\ r.date = date

\* cutoff = new Date(); cutoff.setDate(cutoff.getDate() - MAX_DAYS): the day
\* moves, the time of day stays, and the result is clipped to the Date range.
CutoffDay(nowMs) == (nowMs \div MsPerDay) - MAX_DAYS

CutoffIsValid(nowMs) ==
  /\ CutoffDay(nowMs) >= -MaxTimeDays
  /\ \/ CutoffDay(nowMs) < MaxTimeDays
     \/ CutoffDay(nowMs) = MaxTimeDays /\ nowMs % MsPerDay = 0

\* new Date(record.timestamp) > cutoff: false whenever cutoff is Invalid Date.
IsAfterCutoff(ts, nowMs) ==
  /\ CutoffIsValid(nowMs)
  /\ \/ ts \div MsPerDay > CutoffDay(nowMs)
     \/ ts \div MsPerDay = CutoffDay(nowMs) /\ ts % MsPerDay > nowMs % MsPerDay

\* cleanOldRecords: keep the records after the cutoff; write only if some
\* record went; a failed write is logged, never raised.
CleanOldRecords(st, f, metaFirst, nowMs) ==
  LET recs == GetRecords(st.records)
      filteredRecords == SelectSeq(recs, LAMBDA r : IsAfterCutoff(r.timestamp, nowMs))
  IN IF Len(filteredRecords) # Len(recs)
     THEN Swallow(SaveRecords(st, filteredRecords, f, metaFirst))
     ELSE Ret(st, f, FALSE)

\* What a domain operation hands back: [st, f, nid, result, rec]; nid counts
\* the ids handed out.
Result(w, nid, result, rec) ==
  [st |-> w.st, f |-> w.f, nid |-> nid, result |-> result, rec |-> rec]

\* saveManualAttendance from storageManager.addRecord(record) on: a failed
\* add raises, a successful one is followed by the retention cleanup.
SaveAdded(a, record, metaFirst, nowMs) ==
  IF a.threw
  THEN Result(a, record.id, "SaveFailed", NoRecord)
  ELSE Result(CleanOldRecords(a.st, a.f, metaFirst, nowMs), record.id, "ok", record)

\* saveManualAttendance: the duplicate check, the fresh record, the add.
SaveManualAttendance(st, nid, prefectNumber, role, timestamp, f, metaFirst, nowMs) ==
  IF CheckDuplicateAttendance(st, prefectNumber, role, LocalDateString(timestamp))
  THEN Result(Ret(st, f, TRUE), nid, "DuplicateAttendance", NoRecord)
  ELSE SaveAdded(AddRecord(st, [id |-> nid + 1, prefectNumber |-> prefectNumber,
                                role |-> role, timestamp |-> timestamp,
                                date |-> LocalDateString(timestamp)],
                           f, metaFirst),
                 [id |-> nid + 1, prefectNumber |-> prefectNumber,
                  role |-> role, timestamp |-> timestamp,
                  date |-> LocalDateString(timestamp)],
                 metaFirst, nowMs)

\* saveBulkAttendance's accumulator [st, f, nid, success, errors] after one
\* entry: the record joins success, or the reason joins errors.
BulkError(acc, e, reason) ==
  Append(acc.errors, [prefectNumber |-> e.prefectNumber, role |-> e.role,
                      error |-> reason])

BulkSaved(acc, e, r) ==
  IF r.result = "ok"
  THEN [st |-> r.st, f |-> r.f, nid |-> r.nid,
        success |-> Append(acc.success, r.rec), errors |-> acc.errors]
  ELSE [st |-> r.st, f |-> r.f, nid |-> r.nid,
        success |-> acc.success, errors |-> BulkError(acc, e, r.result)]

\* One entry of saveBulkAttendance's forEach.
BulkEntry(acc, e, timestamp, metaFirst, nowMs) ==
  IF CheckDuplicateAttendance(acc.st, e.prefectNumber, e.role,
                              LocalDateString(timestamp))
  THEN [acc EXCEPT !.errors = BulkError(acc, e, "DuplicateAttendance")]
  ELSE BulkSaved(acc, e,
                 SaveManualAttendance(acc.st, acc.nid, e.prefectNumber, e.role,
                                      timestamp, acc.f, metaFirst, nowMs))

\* saveBulkAttendance: the entries in order, each on the store the previous
\* one left.
RECURSIVE SaveBulkAttendance(_, _, _, _, _)
SaveBulkAttendance(acc, entries, timestamp, metaFirst, nowMs) ==
  IF entries = <<>> THEN acc
  ELSE SaveBulkAttendance(BulkEntry(acc, Head(entries), timestamp, metaFirst, nowMs),
                          Tail(entries), timestamp, metaFirst, nowMs)

\* updateAttendance's duplicate test: another record holds the triple the
\* update would produce.
HasDuplicate(recs, id, u) ==
  LET existingRecord == recs[FindIndex(recs, id)]
      date == IF u.date # OmittedNum THEN u.date ELSE existingRecord.date
      prefectNumber == IF u.prefectNumber \notin {Omitted, ""}
                       THEN u.prefectNumber ELSE existingRecord.prefectNumber
      role == IF u.role # Omitted THEN u.role ELSE existingRecord.role
  IN \E i \in 1..Len(recs) :
       /\ recs[i].id # id
       /\ recs[i].prefectNumber = prefectNumber
       /\ recs[i].role = role
       /\ recs[i].date = date

\* updateAttendance from storageManager.updateRecord(id, updates) on.
UpdateWritten(w) ==
  IF w.threw
  THEN Result(w, 0, "UpdateFailed", NoRecord)
  ELSE Result(w, 0, "ok", w.rec)

\* updateAttendance.
UpdateAttendance(st, id, u, f, metaFirst) ==
  IF FindIndex(GetRecords(st.records), id) = 0
  THEN Result(Ret(st, f, TRUE), 0, "NotFound", NoRecord)
  ELSE IF /\ (u.prefectNumber \notin {Omitted, ""} \/ u.role # Omitted)
          /\ HasDuplicate(GetRecords(st.records), id, u)
  THEN Result(Ret(st, f, TRUE), 0, "DuplicateAttendance", NoRecord)
  ELSE UpdateWritten(UpdateRecord(st, id, u, f, metaFirst))

\* deleteAttendance.
DeleteWritten(w) ==
  Result(w, 0, IF w.threw THEN "DeleteFailed" ELSE "ok", NoRecord)

DeleteAttendance(st, id, f, metaFirst) ==
  DeleteWritten(DeleteRecord(st, id, f, metaFirst))

\* checkAdminAccess on the two persisted keys (OmittedNum: key not stored),
\* at host time nowMs.  Returns [store, result, remaining]: remaining is the
\* number the error message reports (minutes when locked, attempts otherwise).
Pins == {ADMIN_PIN, "pear"}

StoredNumber(v) == IF v = OmittedNum THEN 0 ELSE v

CeilDiv(a, b) == (a + b - 1) \div b

\* checkAdminAccess as it would be if the lockout began one failure late
\* (failedAttempts > MAX_FAILED_ATTEMPTS).
CheckAdminAccessLate(store, pin, nowMs) ==
  LET storedLockoutTime == StoredNumber(store.lockout)
      failedAttempts == StoredNumber(store.failed) + 1
  IN IF nowMs < storedLockoutTime
     THEN [store |-> store, result |-> "LockedOut",
           remaining |-> CeilDiv(storedLockoutTime - nowMs, MsPerMinute)]
     ELSE IF pin = ADMIN_PIN
     THEN [store |-> [failed |-> OmittedNum, lockout |-> OmittedNum],
           result |-> "ok", remaining |-> 0]
     ELSE IF failedAttempts > MAX_FAILED_ATTEMPTS
     THEN [store |-> [failed |-> failedAttempts,
                      lockout |-> nowMs + LOCKOUT_DURATION],
           result |-> "LockedOut", remaining |-> LOCKOUT_DURATION \div MsPerMinute]
     ELSE [store |-> [failed |-> failedAttempts, lockout |-> store.lockout],
           result |-> "InvalidPin",
           remaining |-> MAX_FAILED_ATTEMPTS - failedAttempts]

\* checkAdminAccess as it would be if a wrong PIN tried during a lockout were
\* counted before the lockout is looked at.
CheckAdminAccessCounting(store, pin, nowMs) ==
  LET storedLockoutTime == StoredNumber(store.lockout)
      failedAttempts == StoredNumber(store.failed) + 1
  IN IF nowMs < storedLockoutTime
     THEN [store |-> IF pin = ADMIN_PIN THEN store
                     ELSE [store EXCEPT !.failed = failedAttempts],
           result |-> "LockedOut",
           remaining |-> CeilDiv(storedLockoutTime - nowMs, MsPerMinute)]
     ELSE IF pin = ADMIN_PIN
     THEN [store |-> [failed |-> OmittedNum, lockout |-> OmittedNum],
           result |-> "ok", remaining |-> 0]
     ELSE IF failedAttempts >= MAX_FAILED_ATTEMPTS
     THEN [store |-> [failed |-> failedAttempts,
                      lockout |-> nowMs + LOCKOUT_DURATION],
           result |-> "LockedOut", remaining |-> LOCKOUT_DURATION \div MsPerMinute]
     ELSE [store |-> [failed |-> failedAttempts, lockout |-> store.lockout],
           result |-> "InvalidPin",
           remaining |-> MAX_FAILED_ATTEMPTS - failedAttempts]

\* checkAdminAccess as it would be if it reported the attempts that remained
\* before the call.
CheckAdminAccessReportingBefore(store, pin, nowMs) ==
  LET storedLockoutTime == StoredNumber(store.lockout)
      failedAttempts == StoredNumber(store.failed) + 1
  IN IF nowMs < storedLockoutTime
     THEN [store |-> store, result |-> "LockedOut",
           remaining |-> CeilDiv(storedLockoutTime - nowMs, MsPerMinute)]
     ELSE IF pin = ADMIN_PIN
     THEN [store |-> [failed |-> OmittedNum, lockout |-> OmittedNum],
           result |-> "ok", remaining |-> 0]
     ELSE IF failedAttempts >= MAX_FAILED_ATTEMPTS
     THEN [store |-> [failed |-> failedAttempts,
                      lockout |-> nowMs + LOCKOUT_DURATION],
           result |-> "LockedOut", remaining |-> LOCKOUT_DURATION \div MsPerMinute]
     ELSE [store |-> [failed |-> failedAttempts, lockout |-> store.lockout],
           result |-> "InvalidPin",
           remaining |-> MAX_FAILED_ATTEMPTS - StoredNumber(store.failed)]

\* checkAdminAccess as it would be if a lockout that has run out took the
\* failure counter with it.
CheckAdminAccessForgiving(store, pin, nowMs) ==
  LET storedLockoutTime == StoredNumber(store.lockout)
      failedAttempts == IF storedLockoutTime # 0 THEN 1
                        ELSE StoredNumber(store.failed) + 1
  IN IF nowMs < storedLockoutTime
     THEN [store |-> store, result |-> "LockedOut",
           remaining |-> CeilDiv(storedLockoutTime - nowMs, MsPerMinute)]
     ELSE IF pin = ADMIN_PIN
     THEN [store |-> [failed |-> OmittedNum, lockout |-> OmittedNum],
           result |-> "ok", remaining |-> 0]
     ELSE IF failedAttempts >= MAX_FAILED_ATTEMPTS
     THEN [store |-> [failed |-> failedAttempts,
                      lockout |-> nowMs + LOCKOUT_DURATION],
           result |-> "LockedOut", remaining |-> LOCKOUT_DURATION \div MsPerMinute]
     ELSE [store |-> [failed |-> failedAttempts,
                      lockout |-> IF storedLockoutTime # 0 THEN OmittedNum
                                  ELSE store.lockout],
           result |-> "InvalidPin",
           remaining |-> MAX_FAILED_ATTEMPTS - failedAttempts]

CheckAdminAccess(store, pin, nowMs) ==
  LET storedLockoutTime == StoredNumber(store.lockout)
      failedAttempts == StoredNumber(store.failed) + 1
  IN IF nowMs < storedLockoutTime
     THEN [store |-> store, result |-> "LockedOut",
           remaining |-> CeilDiv(storedLockoutTime - nowMs, MsPerMinute)]
     ELSE IF pin = ADMIN_PIN
     THEN [store |-> [failed |-> OmittedNum, lockout |-> OmittedNum],
           result |-> "ok", remaining |-> 0]
     ELSE IF failedAttempts >= MAX_FAILED_ATTEMPTS
     THEN [store |-> [failed |-> failedAttempts,
                      lockout |-> nowMs + LOCKOUT_DURATION],
           result |-> "LockedOut", remaining |-> LOCKOUT_DURATION \div MsPerMinute]
     ELSE [store |-> [failed |-> failedAttempts, lockout |-> store.lockout],
           result |-> "InvalidPin",
           remaining |-> MAX_FAILED_ATTEMPTS - failedAttempts]

\* Date.prototype.getHours / getMinutes / getSeconds, local time.
GetHours(ts) == (ts % MsPerDay) \div MsPerHour
GetMinutes(ts) == (ts % MsPerHour) \div MsPerMinute
GetSeconds(ts) == (ts % MsPerMinute) \div 1000

\* The on-time test at each of the four classification sites.
OnTimePrefectStats(ts) ==
  GetHours(ts) < 7 \/ (GetHours(ts) = 7 /\ GetMinutes(ts) = 0)

\* The getDailyStats test as it would be without the 07:00 clause.
OnTimeDailyStatsBefore7(ts) == GetHours(ts) < 7

OnTimeDailyStats(ts) ==
  GetHours(ts) < 7 \/ (GetHours(ts) = 7 /\ GetMinutes(ts) = 0)

StatusPrefectReport(ts) ==
  IF GetHours(ts) < 7 \/ (GetHours(ts) = 7 /\ GetMinutes(ts) = 0)
  THEN "On Time" ELSE "Late"

\* The exportAttendance test as it would be with the hour left out of the
\* 07:00 clause.
StatusDailyReportAnyHour(ts) ==
  IF GetHours(ts) < 7 \/ GetMinutes(ts) = 0 THEN "On Time" ELSE "Late"

StatusDailyReport(ts) ==
  IF GetHours(ts) < 7 \/ (GetHours(ts) = 7 /\ GetMinutes(ts) = 0)
  THEN "On Time" ELSE "Late"

\* The ten role categories both statistics start from, each at 0.
TenRoles ==
  {"Head", "Deputy", "Senior Executive", "Executive", "Super Senior", "Senior",
   "Junior", "Sub", "Apprentice", "Games Captain"}

NaN == "NaN"

\* stats.byRole[record.role]++: a role that is no key yet reads as undefined,
\* and undefined + 1 is NaN, which stays NaN under every later ++. Only the ten
\* roles are keys from the start, so every other key holds NaN.
Increment(byRole, role) ==
  IF role \in TenRoles THEN [byRole EXCEPT ![role] = @ + 1]
  ELSE IF role \in DOMAIN byRole THEN byRole
  ELSE (role :> NaN) @@ byRole

RECURSIVE CountRoles(_, _)
CountRoles(byRole, recs) ==
  IF recs = <<>> THEN byRole
  ELSE CountRoles(Increment(byRole, Head(recs).role), Tail(recs))

\* getDailyStats: the records of the date, counted.
GetDailyStats(recs, date) ==
  [site |-> "getDailyStats",
   total |-> Len(SelectSeq(recs, LAMBDA r : r.date = date)),
   onTime |-> Len(SelectSeq(recs, LAMBDA r : r.date = date
                                             /\ OnTimeDailyStats(r.timestamp))),
   late |-> Len(SelectSeq(recs, LAMBDA r : r.date = date
                                           /\ ~OnTimeDailyStats(r.timestamp))),
   byRole |-> CountRoles([r \in TenRoles |-> 0],
                         SelectSeq(recs, LAMBDA r : r.date = date))]

\* String.prototype.includes on the code units: some window of `chars` is
\* `part`.
Includes(chars, part) ==
  \E k \in 0..(Len(chars) - Len(part)) :
     \A i \in 1..Len(part) : chars[k + i] = part[i]

\* searchPrefectRecords: the records whose prefect number contains the query
\* (digits have no case), most recent first.
SearchPrefectRecords(recs, query) ==
  SortByTimestampDesc(
    SelectSeq(recs, LAMBDA r : Includes(CharCodes(r.prefectNumber),
                                        CharCodes(query))))

\* (onTimeDays / totalDays) * 100, as the fraction num / den.
AttendanceRate(onTime, total) ==
  IF total > 0 THEN [num |-> onTime * 100, den |-> total]
  ELSE [num |-> 0, den |-> 1]

PrefectStatsOf(found) ==
  [site |-> "getPrefectStats",
   totalDays |-> Len(found),
   onTimeDays |-> Len(SelectSeq(found, LAMBDA r : OnTimePrefectStats(r.timestamp))),
   lateDays |-> Len(SelectSeq(found, LAMBDA r : ~OnTimePrefectStats(r.timestamp))),
   attendanceRate |->
     AttendanceRate(Len(SelectSeq(found,
                                  LAMBDA r : OnTimePrefectStats(r.timestamp))),
                    Len(found)),
   roles |-> CountRoles([r \in TenRoles |-> 0], found),
   recentRecords |-> FirstN(found, 10)]

\* getPrefectStats: the records searchPrefectRecords finds, counted.
GetPrefectStats(recs, query) == PrefectStatsOf(SearchPrefectRecords(recs, query))

-----------------------------------------------------------------------------
(* Attendance Domain over the alternative transport (src/unnamed/part_000) *)

\* mark-attendance of the out-of-process store, with the semantics the local
\* save has: a record of that prefect and role for the current day is a
\* duplicate; otherwise a fresh record stamped with the store's current time
\* is kept.  Returns [remote, nid, result, rec].
MarkAttendance(rem, nid, prefectNumber, role, nowMs) ==
  IF \E i \in 1..Len(rem) : /\ rem[i].prefectNumber = prefectNumber
                            /\ rem[i].role = role
                            /\ rem[i].date = LocalDateString(nowMs)
  THEN [remote |-> rem, nid |-> nid, result |-> "DuplicateAttendance",
        rec |-> NoRecord]
  ELSE [remote |-> Append(rem, [id |-> nid + 1, prefectNumber |-> prefectNumber,
                                role |-> role, timestamp |-> nowMs,
                                date |-> LocalDateString(nowMs)]),
        nid |-> nid + 1, result |-> "ok",
        rec |-> [id |-> nid + 1, prefectNumber |-> prefectNumber,
                 role |-> role, timestamp |-> nowMs,
                 date |-> LocalDateString(nowMs)]]

\* saveManualAttendance of the transport domain: saveAttendance(prefectNumber,
\* role); the timestamp argument is not passed on.
TransportSaveManualAttendance(rem, nid, prefectNumber, role, timestamp, nowMs) ==
  MarkAttendance(rem, nid, prefectNumber, role, nowMs)

\* updateAttendance and deleteAttendance of the transport domain: a line in
\* the console, no call to the store, the promise resolves.
TransportUpdateAttendance(rem, id, u) ==
  [remote |-> rem, result |-> "ok"]

TransportDeleteAttendance(rem, id) ==
  [remote |-> rem, result |-> "ok"]

\* getAttendanceRecords of the transport domain: list-all.
GetAttendanceRecords(rem) == rem

-----------------------------------------------------------------------------
(* The state machine                                                       *)

\* What the caller of the most recent operation passed and got back.  count
\* is the number of entries passed (saveBulk) or of live records that went
\* (delete); faulted tells whether the host failed a write during the call;
\* script is the write outcomes a store call met, arg the kind of its argument,
\* payload the entries of the backup string it was given, list the list it
\* was given or returned, left the caller's array as saveRecords left it,
\* flag the boolean it returned;
\* streak counts the wrong-PIN calls since the last successful authentication,
\* tenthAt is the host time of the call that brought the streak to
\* MAX_FAILED_ATTEMPTS, and lateWrong tells whether a wrong PIN has been tried
\* since LOCKOUT_DURATION after tenthAt.
Idle == [op |-> "none", result |-> "none", rec |-> NoRecord, id |-> NoId,
         prefectNumber |-> "", role |-> "", timestamp |-> OmittedNum,
         count |-> 0, success |-> <<>>, errors |-> <<>>, faulted |-> FALSE,
         pin |-> "", remaining |-> 0, streak |-> 0, tenthAt |-> OmittedNum,
         lateWrong |-> FALSE, list |-> <<>>,
         hash |-> [negative |-> FALSE, digits |-> <<>>],
         script |-> <<>>, arg |-> "none", payload |-> <<>>, flag |-> FALSE,
         stats |-> [site |-> "none"], left |-> <<>>]

Faulted(f) == \E i \in 1..Len(f) : f[i] \in {"quota", "io"}

\* localStorage as an operation finds it; `notified` collects the lists its
\* saveRecords calls hand to notifyListeners, in order.
Store == [records |-> records, kind |-> blobKind, hash |-> integrityHash,
          meta |-> metadata, backups |-> backups, notified |-> <<>>]

\* localStorage as a store operation left it.
Persist(st) ==
  /\ records' = st.records
  /\ blobKind' = st.kind
  /\ integrityHash' = st.hash
  /\ metadata' = st.meta
  /\ backups' = st.backups

storage == <<records, blobKind, integrityHash, metadata, backups>>

Min(a, b) == IF a < b THEN a ELSE b

\* The streak is counted up to two calls past the lockout threshold.
MaxStreak == MAX_FAILED_ATTEMPTS + 2

\* The live record set: what getRecords returns.
Live == GetRecords(records)

BulkEntries ==
  UNION {[1..n -> [prefectNumber : PrefectNumbers, role : Roles]] : n \in 0..MaxBulk}

TickMs == 5 * MsPerMinute

ProbeSpan == 60
\* Record times of one day: every second around 07:00, and instants spread
\* over the day (00:00, 05:30, 07:30, 08:00, 08:00:30, 17:00, 23:59).
ProbeTimes ==
  {7 * MsPerHour + k * 1000 : k \in (-ProbeSpan)..ProbeSpan}
  \cup {0, 5 * MsPerHour + 30 * MsPerMinute, 7 * MsPerHour + 30 * MsPerMinute,
        8 * MsPerHour, 8 * MsPerHour + 30 * 1000, 17 * MsPerHour,
        23 * MsPerHour + 59 * MsPerMinute}

NoVerdict == [site |-> "none", status |-> "none"]

\* No backup string has been handed out yet.  Next to the string, `live` keeps
\* the live records it was taken from.
NoExport == [kind |-> "none", records |-> <<>>, live |-> <<>>]

\* Nothing is in sessionStorage.
NoSession == [set |-> FALSE, timestamp |-> OmittedNum, records |-> <<>>]

\* The processes that share the origin's localStorage: 1 is this one.
Tabs == {1, 2}

\* A process that is not inside addRecord.
NoTab == [phase |-> "idle", list |-> <<>>, rec |-> NoRecord]

\* The listener registry, the other process and the out-of-process store.
peers == <<listeners, delivered, events, tabs, remote>>

\* No listener is registered, no storage event is in flight, no process is
\* inside addRecord, the out-of-process store is empty.
InitPeers ==
  /\ listeners = <<>>
  /\ delivered = <<>>
  /\ events = <<>>
  /\ tabs = [p \in Tabs |-> NoTab]
  /\ remote = <<>>

\* What the store operations of the domain leave alone.
env == <<session, lastBackup, backupTimer, version, peers>>

\* After construction at host time 0: the startup backup is recorded, the
\* backup interval fires a day later, sessionStorage is empty, the schema
\* version is the current one.
InitEnv ==
  /\ session = NoSession
  /\ lastBackup = 0
  /\ backupTimer = BACKUP_INTERVAL
  /\ version = STORAGE_VERSION
  /\ InitPeers

\* After construction on a fresh host: empty record list, the startup
\* automatic snapshot of it, nothing stored for the admin guard.
Init ==
  /\ records = <<>>
  /\ blobKind = "list"
  /\ integrityHash = HashOf(<<>>)
  /\ metadata = TRUE
  /\ backups = {Snapshot(0, FALSE, <<>>)}
  /\ exported = NoExport
  /\ pc = <<>>
  /\ nextId = 0
  /\ adminStore = [failed |-> OmittedNum, lockout |-> OmittedNum]
  /\ now = 0
  /\ probe = 7 * MsPerHour
  /\ verdict = NoVerdict
  /\ last = Idle
  /\ InitEnv

\* The store and the id counter as a domain operation left them.
Commit(r) ==
  /\ Persist(r.st)
  /\ nextId' = r.nid

SaveDone(r, prefectNumber, role, timestamp, f) ==
  /\ Commit(r)
  /\ last' = [Idle EXCEPT !.op = "save", !.result = r.result, !.rec = r.rec,
                          !.prefectNumber = prefectNumber, !.role = role,
                          !.timestamp = timestamp, !.faulted = Faulted(f)]

Save(prefectNumber, role, timestamp, f, metaFirst) ==
  /\ nextId < MaxId
  /\ SaveDone(SaveManualAttendance(Store, nextId, prefectNumber, role, timestamp,
                                   f, metaFirst, now),
              prefectNumber, role, timestamp, f)
  /\ UNCHANGED <<env, exported, pc, adminStore, now, probe, verdict>>

SaveBulkDone(r, entries, timestamp, f) ==
  /\ Commit(r)
  /\ last' = [Idle EXCEPT !.op = "saveBulk", !.result = "ok",
                          !.count = Len(entries), !.timestamp = timestamp,
                          !.success = r.success, !.errors = r.errors,
                          !.faulted = Faulted(f)]

SaveBulk(entries, timestamp, f, metaFirst) ==
  /\ nextId + Len(entries) <= MaxId
  /\ SaveBulkDone(SaveBulkAttendance([st |-> Store, f |-> f, nid |-> nextId,
                                      success |-> <<>>, errors |-> <<>>],
                                     entries, timestamp, metaFirst, now),
                  entries, timestamp, f)
  /\ UNCHANGED <<env, exported, pc, adminStore, now, probe, verdict>>

UpdateDone(r, id, f) ==
  /\ Persist(r.st)
  /\ last' = [Idle EXCEPT !.op = "update", !.result = r.result, !.rec = r.rec,
                          !.id = id, !.faulted = Faulted(f)]

Update(id, u, f, metaFirst) ==
  /\ UpdateDone(UpdateAttendance(Store, id, u, f, metaFirst), id, f)
  /\ UNCHANGED <<env, exported, pc, nextId, adminStore, now, probe, verdict>>

DeleteDone(r, id, f) ==
  /\ Persist(r.st)
  /\ last' = [Idle EXCEPT !.op = "delete", !.result = r.result, !.id = id,
                          !.count = Len(Live) - Len(GetRecords(r.st.records)),
                          !.faulted = Faulted(f)]

Delete(id, f, metaFirst) ==
  /\ DeleteDone(DeleteAttendance(Store, id, f, metaFirst), id, f)
  /\ UNCHANGED <<env, exported, pc, nextId, adminStore, now, probe, verdict>>

\* The streak after a call with this PIN and this result.
StreakAfter(result, pin) ==
  IF result = "ok" THEN 0
  ELSE IF pin = ADMIN_PIN THEN last.streak
  ELSE Min(last.streak + 1, MaxStreak)

AuthDone(r, pin) ==
  /\ adminStore' = r.store
  /\ last' = [Idle EXCEPT !.op = "auth", !.result = r.result, !.pin = pin,
                          !.remaining = r.remaining,
                          !.streak = StreakAfter(r.result, pin),
                          !.tenthAt =
                            IF StreakAfter(r.result, pin) = MAX_FAILED_ATTEMPTS
                               /\ last.streak < MAX_FAILED_ATTEMPTS
                            THEN now
                            ELSE IF r.result = "ok" \/ pin = ADMIN_PIN
                                    \/ last.streak >= MAX_FAILED_ATTEMPTS
                            THEN last.tenthAt
                            ELSE OmittedNum,
                          !.lateWrong =
                            /\ r.result # "ok"
                            /\ \/ last.lateWrong
                               \/ /\ pin # ADMIN_PIN
                                  /\ last.streak >= MAX_FAILED_ATTEMPTS
                                  /\ now >= last.tenthAt + LOCKOUT_DURATION]

Auth(pin) ==
  /\ AuthDone(CheckAdminAccess(adminStore, pin, now), pin)
  /\ UNCHANGED <<env, storage, exported, pc, nextId, now, probe, verdict>>

Tick ==
  /\ now < MaxTicks * TickMs
  /\ now' = now + TickMs
  /\ last' = [last EXCEPT !.op = "tick", !.result = "none", !.pin = "",
                          !.remaining = 0]
  /\ UNCHANGED <<env, storage, exported, pc, nextId, adminStore, probe, verdict>>

Classify(site) ==
  /\ verdict' = [site |-> site,
                 status |-> CASE site = "getPrefectStats" ->
                                   IF OnTimePrefectStats(probe) THEN "On Time" ELSE "Late"
                              [] site = "getDailyStats" ->
                                   IF OnTimeDailyStats(probe) THEN "On Time" ELSE "Late"
                              [] site = "exportPrefectReport" -> StatusPrefectReport(probe)
                              [] site = "exportAttendance" -> StatusDailyReport(probe)]
  /\ last' = [Idle EXCEPT !.op = "classify"]
  /\ UNCHANGED <<env, storage, exported, pc, nextId, adminStore, now, probe>>

Sites == {"getPrefectStats", "getDailyStats", "exportPrefectReport", "exportAttendance"}

\* Every snapshot these operations can meet holds the empty list, which is
\* also what the metadata entry reads as: the host's sort order changes nothing.
MetaFirstChoices == {FALSE}

DoSave ==
  \E p \in PrefectNumbers, r \in Roles, ts \in Timestamps,
     f \in FaultScripts, m \in MetaFirstChoices : Save(p, r, ts, f, m)

DoSaveBulk ==
  \E es \in BulkEntries, ts \in Timestamps, f \in FaultScripts,
     m \in MetaFirstChoices : SaveBulk(es, ts, f, m)

DoUpdate ==
  \E id \in Ids, u \in Updates, f \in FaultScripts, m \in MetaFirstChoices :
     Update(id, u, f, m)

DoDelete ==
  \E id \in Ids, f \in FaultScripts, m \in MetaFirstChoices : Delete(id, f, m)

\* The attendance domain over the record store.
Next == DoSave \/ DoSaveBulk \/ DoUpdate \/ DoDelete

Spec == Init /\ [][Next]_vars

\* The admin lockout guard under a running clock.
NextAuth == (\E pin \in Pins : Auth(pin)) \/ Tick

SpecAuth == Init /\ [][NextAuth]_vars

\* The record lists generateDataHash is given: records of distinct ids, two
\* records of one id (as update leaves them) and an entry with an emptied field.
HashPool ==
  {[id |-> 1, prefectNumber |-> "42", role |-> "Senior",
    timestamp |-> 6 * MsPerHour + 30 * MsPerMinute, date |-> 0],
   [id |-> 2, prefectNumber |-> "7", role |-> "Senior",
    timestamp |-> 8 * MsPerHour + 15 * MsPerMinute, date |-> 0],
   [id |-> 1, prefectNumber |-> "7", role |-> "Senior",
    timestamp |-> MsPerDay + 7 * MsPerHour, date |-> 1],
   [id |-> 3, prefectNumber |-> "42", role |-> "Senior",
    timestamp |-> MsPerDay + 7 * MsPerHour, date |-> 1],
   [id |-> 2, prefectNumber |-> "", role |-> "Senior",
    timestamp |-> 8 * MsPerHour + 15 * MsPerMinute, date |-> 0]}

HashInputs == UNION {[1..n -> HashPool] : n \in 0..MaxHashLen}

\* One call of generateDataHash, as verifyDataIntegrity and saveRecords make it.
Fingerprint(data) ==
  /\ last' = [Idle EXCEPT !.op = "generateDataHash", !.list = data,
                          !.hash = GenerateDataHash(data)]
  /\ UNCHANGED <<env, storage, exported, pc, nextId, adminStore, now, probe, verdict>>

NextHash == \E data \in HashInputs : Fingerprint(data)

SpecHash == Init /\ [][NextHash]_vars

\* Calls on the record store itself.  Here snapshots hold records, so the
\* place the host's sort gives the metadata entry matters, and so does quota
\* pressure.  A script is a single outcome, or a failed write followed by the
\* failure of the write its handling makes.
StoreScripts ==
  {<<>>, <<"pressure">>, <<"quota">>, <<"io">>, <<"io", "io">>, <<"quota", "io">>}

Threw(r) == IF r.threw THEN "raised" ELSE "ok"

\* The record addRecord is given: prefect 42, marked at 06:30 on day 0.
NewRecord(id) ==
  [id |-> id, prefectNumber |-> "42", role |-> "Senior",
   timestamp |-> 6 * MsPerHour + 30 * MsPerMinute, date |-> 0]

StoreDone(r, op, f) ==
  /\ Persist(r.st)
  /\ last' = [Idle EXCEPT !.op = op, !.script = f, !.result = Threw(r)]

CallAddRecord(f, metaFirst) ==
  /\ nextId < MaxStoreIds
  /\ StoreDone(AddRecord(Store, NewRecord(nextId + 1), f, metaFirst),
               "addRecord", f)
  /\ nextId' = nextId + 1
  /\ UNCHANGED <<env, exported, pc, adminStore, now, probe, verdict>>

\* The partial updates of the direct calls: another prefect number, an
\* emptied one.
StoreUpdates ==
  {[NoUpdates EXCEPT !.prefectNumber = "7"], [NoUpdates EXCEPT !.prefectNumber = ""]}

CallUpdateRecord(id, u, f, metaFirst) ==
  /\ StoreDone(UpdateRecord(Store, id, u, f, metaFirst), "updateRecord", f)
  /\ UNCHANGED <<env, exported, pc, nextId, adminStore, now, probe, verdict>>

CallDeleteRecord(id, f, metaFirst) ==
  /\ StoreDone(DeleteRecord(Store, id, f, metaFirst), "deleteRecord", f)
  /\ UNCHANGED <<env, exported, pc, nextId, adminStore, now, probe, verdict>>

\* saveRecords called directly: with the live records, with an entry whose
\* prefectNumber is empty added, with the empty list, with something that is
\* not a list, with a list too large to store.
SaveArgs ==
  {ListArg(Live), ListArg(Append(Live, [NewRecord(1) EXCEPT !.prefectNumber = ""])),
   ListArg(<<>>), NotAListArg, OversizeArg}

SaveRecordsDone(r, arg, f) ==
  /\ Persist(r.st)
  /\ last' = [Idle EXCEPT !.op = "saveRecords", !.script = f, !.arg = arg.kind,
                          !.list = arg.records, !.result = Threw(r)]

CallSaveRecords(arg, f, metaFirst) ==
  /\ SaveRecordsDone(SaveRecordsCall(Store, arg, f, metaFirst), arg, f)
  /\ UNCHANGED <<env, exported, pc, nextId, adminStore, now, probe, verdict>>

\* getRecords on a stored list: nothing is written.
CallGetRecords ==
  /\ blobKind = "list"
  /\ last' = [Idle EXCEPT !.op = "getRecords", !.result = "ok",
                          !.list = GetRecords(records)]
  /\ UNCHANGED <<env, storage, exported, pc, nextId, adminStore, now, probe, verdict>>

VerifyDone(r, f) ==
  /\ Persist(r.st)
  /\ last' = [Idle EXCEPT !.op = "verifyDataIntegrity", !.script = f,
                          !.result = "ok", !.flag = r.value]

CallVerifyDataIntegrity(f, metaFirst) ==
  /\ VerifyDone(VerifyDataIntegrity(Store, f, metaFirst), f)
  /\ UNCHANGED <<env, exported, pc, nextId, adminStore, now, probe, verdict>>

BackupDone(r, f) ==
  /\ Persist(r.st)
  /\ exported' = IF r.threw THEN exported
                 ELSE [kind |-> r.value.kind, records |-> r.value.records,
                       live |-> Live]
  /\ last' = [Idle EXCEPT !.op = "createManualBackup", !.script = f,
                          !.result = Threw(r)]

CallCreateManualBackup(f) ==
  /\ BackupDone(CreateManualBackup(Store, f, now), f)
  /\ UNCHANGED <<env, pc, nextId, adminStore, now, probe, verdict>>

\* Backup strings that did not come from createManualBackup: without a records
\* field, with one that is not a list, the text null, text that is not JSON,
\* an empty records list, and a records list with an entry that lacks a
\* required field.
ForeignPayloads ==
  {Payload("noRecords", <<>>), Payload("notList", <<>>), Payload("null", <<>>),
   Payload("unparsable", <<>>), Payload("valid", <<>>),
   Payload("valid",
           StringifyEach(<<[NewRecord(1) EXCEPT !.prefectNumber = "7"],
                           [NewRecord(2) EXCEPT !.timestamp = OmittedNum]>>))}

Payloads ==
  ForeignPayloads
  \cup (IF exported.kind = "none" THEN {}
        ELSE {Payload(exported.kind, exported.records)})

RestoreDone(r, payload, f) ==
  /\ Persist(r.st)
  /\ last' = [Idle EXCEPT !.op = "restoreFromBackup", !.script = f,
                          !.arg = payload.kind, !.payload = payload.records,
                          !.result = r.value]

CallRestoreFromBackup(payload, f, metaFirst) ==
  /\ RestoreDone(RestoreFromBackup(Store, payload, f, metaFirst), payload, f)
  /\ UNCHANGED <<env, exported, pc, nextId, adminStore, now, probe, verdict>>

\* A store constructed one tick ago: its startup snapshot is older than any
\* snapshot taken from now on.  The fingerprint key is there, or (a list
\* stored before fingerprints were kept) it is not.
InitStore ==
  /\ records = <<>>
  /\ blobKind = "list"
  /\ integrityHash \in {HashOf(<<>>), NoHash}
  /\ metadata = TRUE
  /\ backups = {Snapshot(0, FALSE, <<>>)}
  /\ exported = NoExport
  /\ pc = <<>>
  /\ nextId = 0
  /\ adminStore = [failed |-> OmittedNum, lockout |-> OmittedNum]
  /\ now = TickMs
  /\ probe = 7 * MsPerHour
  /\ verdict = NoVerdict
  /\ last = Idle
  /\ InitEnv

NextStore ==
  \/ \E f \in StoreScripts, m \in BOOLEAN : CallAddRecord(f, m)
  \/ \E id \in 1..MaxStoreIds, u \in StoreUpdates, f \in StoreScripts,
        m \in BOOLEAN : CallUpdateRecord(id, u, f, m)
  \/ \E id \in 1..MaxStoreIds, f \in StoreScripts, m \in BOOLEAN :
        CallDeleteRecord(id, f, m)
  \/ \E arg \in SaveArgs, f \in StoreScripts, m \in BOOLEAN :
        CallSaveRecords(arg, f, m)
  \/ CallGetRecords
  \/ \E f \in StoreScripts, m \in BOOLEAN : CallVerifyDataIntegrity(f, m)
  \/ \E f \in StoreScripts : CallCreateManualBackup(f)
  \/ \E payload \in Payloads, f \in StoreScripts, m \in BOOLEAN :
        CallRestoreFromBackup(payload, f, m)

SpecStore == InitStore /\ [][NextStore]_vars

\* getRecords step by step, on storage as a crash, another program or the user
\* may have left it: the records key absent, holding text that is not JSON,
\* holding JSON that is not a list, or holding a list; with or without a
\* snapshot, with or without the metadata entry.
\*
\* pc holds the frames of the call, innermost last.  A frame is the function
\* and where it stands: "getRecords" and "attemptDataRecovery" and
\* "handleStorageError" are about to run their body; "getRecords.catch",
\* "handleStorageError.called" and "attemptDataRecovery.called" have made
\* their call and go on once it has returned.  Of a stack deeper than
\* MaxFrames the innermost MaxFrames frames are kept.
Top == pc[Len(pc)]

Pop == SubSeq(pc, 1, Len(pc) - 1)

Call(here, callee) ==
  IF Len(pc) < MaxFrames
  THEN Append(Append(Pop, here), callee)
  ELSE Tail(Append(Append(Pop, here), callee))

\* The writes of a recovery inside a read: they succeed, or fail with an error
\* that is not a quota error.
ReadScripts == {<<>>, <<"io">>, <<"io", "io">>}

Running == [Idle EXCEPT !.op = "getRecords", !.result = "running"]

\* A frame ends; if it was the outermost, the caller has value.
Return(value) ==
  /\ pc' = Pop
  /\ last' = IF Len(pc) = 1
             THEN [Idle EXCEPT !.op = "getRecords", !.result = "ok", !.list = value]
             ELSE last

ReadCall ==
  /\ pc = <<>>
  /\ pc' = <<"getRecords">>
  /\ last' = Running
  /\ UNCHANGED <<env, storage, exported, nextId, adminStore, now, probe, verdict>>

\* The key is absent, or holds JSON: [] or the filtered list is returned.
ReadReturns ==
  /\ pc # <<>>
  /\ Top = "getRecords"
  /\ blobKind # "unparsable"
  /\ Return(IF blobKind = "list" THEN GetRecords(records) ELSE <<>>)
  /\ UNCHANGED <<env, storage, exported, nextId, adminStore, now, probe, verdict>>

\* JSON.parse throws: the catch block calls handleStorageError.
ReadParseFails ==
  /\ pc # <<>>
  /\ Top = "getRecords"
  /\ blobKind = "unparsable"
  /\ pc' = Call("getRecords.catch", "handleStorageError")
  /\ UNCHANGED <<env, storage, exported, nextId, adminStore, now, probe, verdict, last>>

\* A SyntaxError is not a quota error: handleStorageError calls recovery.
ReadHandles ==
  /\ pc # <<>>
  /\ Top = "handleStorageError"
  /\ pc' = Call("handleStorageError.called", "attemptDataRecovery")
  /\ UNCHANGED <<env, storage, exported, nextId, adminStore, now, probe, verdict, last>>

\* Some 'attendance_backup_' key exists: recovery rewrites the records key from
\* it and returns (true, or false if the write raised).
ReadRecoversFromBackup(f, metaFirst) ==
  /\ pc # <<>>
  /\ Top = "attemptDataRecovery"
  /\ backups # {} \/ metadata
  /\ Persist(AttemptDataRecovery(Store, f, metaFirst).st)
  /\ pc' = Pop
  /\ UNCHANGED <<env, exported, nextId, adminStore, now, probe, verdict, last>>

\* No such key: recovery calls getRecords.
ReadRecoversByReading ==
  /\ pc # <<>>
  /\ Top = "attemptDataRecovery"
  /\ backups = {} /\ ~metadata
  /\ pc' = Call("attemptDataRecovery.called", "getRecords")
  /\ UNCHANGED <<env, storage, exported, nextId, adminStore, now, probe, verdict, last>>

\* The host's call stack runs out at that call (an engine raises a RangeError
\* there): the try block of attemptDataRecovery catches it and returns false.
ReadStackExhausted ==
  /\ pc # <<>>
  /\ Len(pc) = MaxFrames
  /\ Top = "attemptDataRecovery"
  /\ backups = {} /\ ~metadata
  /\ pc' = Pop
  /\ UNCHANGED <<env, storage, exported, nextId, adminStore, now, probe, verdict, last>>

\* The callee has returned: recovery finds nothing to filter and returns
\* true, handleStorageError returns, the catch block returns [].
ReadResumes ==
  /\ pc # <<>>
  /\ Top \in {"attemptDataRecovery.called", "handleStorageError.called",
              "getRecords.catch"}
  /\ Return(<<>>)
  /\ UNCHANGED <<env, storage, exported, nextId, adminStore, now, probe, verdict>>

InitRead ==
  /\ blobKind \in {"list", "absent", "unparsable", "notList"}
  /\ records \in IF blobKind = "list"
                 THEN {<<>>, <<NewRecord(1)>>,
                       <<NewRecord(1), [NewRecord(2) EXCEPT !.prefectNumber = ""]>>}
                 ELSE {<<>>}
  /\ integrityHash \in {NoHash, HashOf(<<NewRecord(1)>>)}
  /\ metadata \in BOOLEAN
  /\ backups \in {{}, {Snapshot(0, FALSE, <<NewRecord(1)>>)}}
  /\ exported = NoExport
  /\ pc = <<>>
  /\ nextId = 0
  /\ adminStore = [failed |-> OmittedNum, lockout |-> OmittedNum]
  /\ now = TickMs
  /\ probe = 7 * MsPerHour
  /\ verdict = NoVerdict
  /\ last = Idle
  /\ InitEnv

NextRead ==
  \/ ReadCall
  \/ ReadReturns
  \/ ReadParseFails
  \/ ReadHandles
  \/ \E f \in ReadScripts, m \in BOOLEAN : ReadRecoversFromBackup(f, m)
  \/ ReadRecoversByReading
  \/ ReadStackExhausted
  \/ ReadResumes

\* A call that has started goes on running: JavaScript runs it to completion.
SpecRead == InitRead /\ [][NextRead]_vars /\ WF_vars(NextRead)

\* The store around the eviction threshold.  The records it starts with carry
\* ids above those addRecord hands out and are spread over the marking
\* instants, as bulk saves leave them.
StoredRecord(i) ==
  [id |-> MaxId + i, prefectNumber |-> "42", role |-> "Senior",
   timestamp |-> CASE i % 3 = 0 -> 6 * MsPerHour + 30 * MsPerMinute
                   [] i % 3 = 1 -> MsPerDay + 7 * MsPerHour
                   [] OTHER -> 8 * MsPerHour + 15 * MsPerMinute,
   date |-> IF i % 3 = 1 THEN 1 ELSE 0]

StoredRecords(n) == [i \in 1..n |-> StoredRecord(i)]

\* Store sizes: EvictKeep, at and just above EvictAbove, and MaxRecords.
EvictSizes == {EvictKeep, EvictAbove, EvictAbove + 1, MaxRecords}

\* Quota pressure and quota errors; no other write error.
EvictScripts == {<<>>, <<"pressure">>, <<"quota">>, <<"pressure", "quota">>}

\* saveRecords is given the live records, or their EvictKeep most recent.
EvictArgs ==
  {ListArg(Live), ListArg(FirstN(SortByTimestampDesc(Live), EvictKeep))}

InitEvict ==
  /\ \E n \in EvictSizes :
       /\ records = StoredRecords(n)
       /\ integrityHash = HashOf(StoredRecords(n))
  /\ blobKind = "list"
  /\ metadata = TRUE
  /\ backups = {Snapshot(0, FALSE, <<>>)}
  /\ exported = NoExport
  /\ pc = <<>>
  /\ nextId = 0
  /\ adminStore = [failed |-> OmittedNum, lockout |-> OmittedNum]
  /\ now = TickMs
  /\ probe = 7 * MsPerHour
  /\ verdict = NoVerdict
  /\ last = Idle
  /\ InitEnv

NextEvict ==
  \/ \E f \in EvictScripts, m \in MetaFirstChoices : CallAddRecord(f, m)
  \/ \E id \in {1, MaxId + 1}, f \in EvictScripts, m \in MetaFirstChoices :
        CallDeleteRecord(id, f, m)
  \/ \E arg \in EvictArgs, f \in EvictScripts, m \in MetaFirstChoices :
        CallSaveRecords(arg, f, m)

SpecEvict == InitEvict /\ [][NextEvict]_vars

\* verifyDataIntegrity on storage as a crash, another program or the user may
\* have left it: a list with or without an entry that lacks a field, a
\* fingerprint of that list, of another list, or none, with or without a
\* snapshot, with or without the metadata entry.
VerifyScripts == {<<>>, <<"io">>}

InitVerify ==
  /\ blobKind = "list"
  /\ records \in {<<>>, <<NewRecord(1)>>,
                  <<NewRecord(1), [NewRecord(2) EXCEPT !.prefectNumber = ""]>>}
  /\ integrityHash \in {NoHash, HashOf(<<NewRecord(1)>>), HashOf(<<>>)}
  /\ metadata \in BOOLEAN
  /\ backups \in {{}, {Snapshot(0, FALSE, <<NewRecord(1)>>)}}
  /\ exported = NoExport
  /\ pc = <<>>
  /\ nextId = 0
  /\ adminStore = [failed |-> OmittedNum, lockout |-> OmittedNum]
  /\ now = TickMs
  /\ probe = 7 * MsPerHour
  /\ verdict = NoVerdict
  /\ last = Idle
  /\ InitEnv

NextVerify ==
  \/ \E f \in VerifyScripts, m \in BOOLEAN : CallVerifyDataIntegrity(f, m)
  \/ CallGetRecords
  \/ \E f \in VerifyScripts, m \in BOOLEAN : CallDeleteRecord(1, f, m)

SpecVerify == InitVerify /\ [][NextVerify]_vars

\* Restoring and recovering, with backup strings whose valid entries repeat
\* an id, repeat a (prefectNumber, role, date) triple, or repeat neither; a
\* snapshot holds whatever was live when it was taken.
RestorePayloads ==
  {Payload("valid",
           StringifyEach(<<NewRecord(1), [NewRecord(1) EXCEPT !.prefectNumber = "7"]>>)),
   Payload("valid", StringifyEach(<<NewRecord(1), NewRecord(2)>>)),
   Payload("valid",
           StringifyEach(<<NewRecord(1), [NewRecord(2) EXCEPT !.prefectNumber = "7"]>>))}

RestoreScripts == {<<>>, <<"io">>}

NextRestore ==
  \/ \E payload \in RestorePayloads, f \in RestoreScripts, m \in BOOLEAN :
        CallRestoreFromBackup(payload, f, m)
  \/ CallCreateManualBackup(<<>>)
  \/ \E id \in Ids : CallDeleteRecord(id, <<>>, FALSE)
  \/ \E m \in BOOLEAN : CallSaveRecords(ListArg(Live), <<"io">>, m)

SpecRestore == InitStore /\ [][NextRestore]_vars

\* saveManualAttendance of prefect 42 as Senior at 06:30 of day 0, called once
\* in each of the two processes that share the origin's localStorage.  Inside
\* one process the call runs to completion; between two accesses of one
\* process to localStorage the other process may make its own.  A process is
\* "idle" before its call; "checked" after a checkDuplicateAttendance that
\* found nothing, its record built; "read" after addRecord's getRecords;
\* "added" after addRecord's saveRecords; "cleaning" after cleanOldRecords has
\* read and filtered; and at the end "done" (the record was returned),
\* "duplicate" or "failed" (the call threw).
bystanders == <<session, lastBackup, backupTimer, version, exported, pc,
                adminStore, now, probe, verdict, listeners, delivered, events,
                remote>>

RaceScripts == {<<>>, <<"quota">>}

Racing(p, phase) ==
  [Idle EXCEPT !.op = "saveManualAttendance", !.id = p, !.result = phase,
               !.rec = tabs'[p].rec]

RaceStep(p, phase, list, rec) ==
  /\ tabs' = [tabs EXCEPT ![p] = [phase |-> phase, list |-> list, rec |-> rec]]
  /\ last' = Racing(p, phase)
  /\ UNCHANGED bystanders

RaceChecks(p) ==
  /\ tabs[p].phase = "idle"
  /\ nextId < MaxId
  /\ IF CheckDuplicateAttendance(Store, NewRecord(0).prefectNumber,
                                 NewRecord(0).role,
                                 LocalDateString(NewRecord(0).timestamp))
     THEN RaceStep(p, "duplicate", <<>>, NoRecord) /\ UNCHANGED nextId
     ELSE RaceStep(p, "checked", <<>>, NewRecord(nextId + 1))
          /\ nextId' = nextId + 1
  /\ UNCHANGED storage

RaceReads(p) ==
  /\ tabs[p].phase = "checked"
  /\ RaceStep(p, "read", GetRecords(records), tabs[p].rec)
  /\ UNCHANGED <<storage, nextId>>

RaceAdds(p, f, metaFirst) ==
  LET r == SaveRecords(Store, Append(tabs[p].list, tabs[p].rec), f, metaFirst)
  IN /\ tabs[p].phase = "read"
     /\ Persist(r.st)
     /\ RaceStep(p, IF r.threw THEN "failed" ELSE "added", <<>>, tabs[p].rec)
     /\ UNCHANGED nextId

RaceCleanReads(p) ==
  LET recs == GetRecords(records)
      filteredRecords == SelectSeq(recs, LAMBDA r : IsAfterCutoff(r.timestamp, now))
  IN /\ tabs[p].phase = "added"
     /\ IF Len(filteredRecords) # Len(recs)
        THEN RaceStep(p, "cleaning", filteredRecords, tabs[p].rec)
        ELSE RaceStep(p, "done", <<>>, tabs[p].rec)
     /\ UNCHANGED <<storage, nextId>>

RaceCleanWrites(p, f, metaFirst) ==
  /\ tabs[p].phase = "cleaning"
  /\ Persist(Swallow(SaveRecords(Store, tabs[p].list, f, metaFirst)).st)
  /\ RaceStep(p, "done", <<>>, tabs[p].rec)
  /\ UNCHANGED nextId

NextRace ==
  \/ \E p \in Tabs : RaceChecks(p)
  \/ \E p \in Tabs : RaceReads(p)
  \/ \E p \in Tabs, f \in RaceScripts, m \in BOOLEAN : RaceAdds(p, f, m)
  \/ \E p \in Tabs : RaceCleanReads(p)
  \/ \E p \in Tabs, f \in RaceScripts, m \in BOOLEAN : RaceCleanWrites(p, f, m)

SpecRace == InitStore /\ [][NextRace]_vars

\* The same on a host that fails no write.
NextRaceNoFault ==
  \/ \E p \in Tabs : RaceChecks(p)
  \/ \E p \in Tabs : RaceReads(p)
  \/ \E p \in Tabs : RaceAdds(p, <<>>, FALSE)
  \/ \E p \in Tabs : RaceCleanReads(p)
  \/ \E p \in Tabs : RaceCleanWrites(p, <<>>, FALSE)

SpecRaceNoFault == InitStore /\ [][NextRaceNoFault]_vars

\* saveRecords step by step, in a host whose condition lasts through the
\* call: "ok"; "pressure" (quota usage is above 90% at every quota check and
\* the writes succeed); "quota" (every setItem of the records key throws
\* QuotaExceededError); "io" (every such setItem throws another error).
\*
\* A frame is [at, who]: the function and where it stands, and for saveRecords
\* who called it: "caller" (with the list the caller passed, last.list), "evict"
\* (handleQuotaExceeded, with the EvictKeep most recent live records) or
\* "recover" (attemptDataRecovery, with the records of the latest backup
\* entry).  "saveRecords" is about to run its body, "saveRecords.write" has
\* called handleQuotaExceeded and writes next, "saveRecords.catch" has called
\* handleStorageError and throws next; ".called" frames have made their call.
\* The host's call stack holds MaxFrames frames; a call made on a full stack
\* raises a RangeError in the frame that makes it.
Frame(at, who) == [at |-> at, who |-> who]

Enter(here, callee) == Append(Append(Pop, here), callee)

Conditions == {"ok", "pressure", "quota", "io"}

Condition == IF last.script = <<>> THEN "ok" ELSE Head(last.script)

Saving(list, c) ==
  [Idle EXCEPT !.op = "saveRecords", !.result = "running", !.list = list,
               !.arg = "list",
               !.script = IF c = "ok" THEN <<>> ELSE <<c>>]

\* The list a saveRecords frame writes.
ListOf(who, metaFirst) ==
  CASE who = "caller" -> last.list
    [] who = "evict" -> FirstN(SortByTimestampDesc(Live), EvictKeep)
    [] OTHER -> GetLatestBackup(backups, metaFirst /\ metadata)

still == <<env, exported, nextId, adminStore, now, probe, verdict>>

\* The outermost frame has ended: the caller has its answer.
Finished(result) == [last EXCEPT !.result = result]

SaveCall(list, c) ==
  /\ pc = <<>>
  /\ last.result # "running"
  /\ pc' = <<Frame("saveRecords", "caller")>>
  /\ last' = Saving(list, c)
  /\ UNCHANGED <<still, storage>>

\* quota.percentage > 90: handleQuotaExceeded is called before the write.
SaveMeetsPressure ==
  /\ pc # <<>>
  /\ Len(pc) < MaxFrames
  /\ Top.at = "saveRecords"
  /\ Condition = "pressure"
  /\ pc' = Enter(Frame("saveRecords.write", Top.who), Frame("handleQuotaExceeded", "none"))
  /\ UNCHANGED <<still, storage, last>>

\* The write, the fingerprint, the listeners, the metadata; the frame returns.
SaveWrites(metaFirst) ==
  /\ pc # <<>>
  /\ \/ Top.at = "saveRecords" /\ Condition = "ok"
     \/ Top.at = "saveRecords.write"
  /\ Persist(Written(Ret(Store, <<>>, FALSE), ListOf(Top.who, metaFirst)).st)
  /\ pc' = Pop
  /\ last' = IF Len(pc) = 1 THEN Finished("ok") ELSE last
  /\ UNCHANGED still

\* setItem throws: the catch block calls handleStorageError.
SaveWriteFails ==
  /\ pc # <<>>
  /\ Len(pc) < MaxFrames
  /\ Top.at = "saveRecords"
  /\ Condition \in {"quota", "io"}
  /\ pc' = Enter(Frame("saveRecords.catch", Top.who), Frame("handleStorageError", "none"))
  /\ UNCHANGED <<still, storage, last>>

\* handleStorageError: a quota error goes to handleQuotaExceeded, any other
\* to attemptDataRecovery.
SaveHandles ==
  /\ pc # <<>>
  /\ Len(pc) < MaxFrames
  /\ Top.at = "handleStorageError"
  /\ pc' = Enter(Frame("handleStorageError.called", "none"),
                 Frame(IF Condition = "quota" THEN "handleQuotaExceeded"
                       ELSE "attemptDataRecovery", "none"))
  /\ UNCHANGED <<still, storage, last>>

\* handleQuotaExceeded: the snapshots are pruned; with more than EvictAbove
\* live records it calls saveRecords with the EvictKeep most recent ones,
\* otherwise it returns.
SaveEvicts(metaFirst) ==
  /\ pc # <<>>
  /\ Top.at = "handleQuotaExceeded"
  /\ Len(Live) > EvictAbove => Len(pc) < MaxFrames
  /\ Persist(CleanOldBackups(Store, metaFirst))
  /\ pc' = IF Len(Live) > EvictAbove
           THEN Enter(Frame("handleQuotaExceeded.called", "none"),
                      Frame("saveRecords", "evict"))
           ELSE Pop
  /\ UNCHANGED <<still, last>>

\* attemptDataRecovery: with some 'attendance_backup_' key it calls
\* saveRecords with that entry's records; with none it finds every live
\* record valid and returns.
SaveRecovers ==
  /\ pc # <<>>
  /\ Top.at = "attemptDataRecovery"
  /\ (backups # {} \/ metadata) => Len(pc) < MaxFrames
  /\ pc' = IF backups # {} \/ metadata
           THEN Enter(Frame("attemptDataRecovery.called", "none"),
                      Frame("saveRecords", "recover"))
           ELSE Pop
  /\ UNCHANGED <<still, storage, last>>

\* The callee has returned, or has thrown into the try block of
\* handleQuotaExceeded or attemptDataRecovery, which logs: the frame returns.
SaveResumes ==
  /\ pc # <<>>
  /\ Top.at \in {"handleQuotaExceeded.called", "attemptDataRecovery.called",
                 "handleStorageError.called"}
  /\ pc' = Pop
  /\ UNCHANGED <<still, storage, last>>

\* throw error: the frame ends; its caller is handleQuotaExceeded or
\* attemptDataRecovery, which catch, or the caller of the whole call.
SaveRethrows ==
  /\ pc # <<>>
  /\ Top.at = "saveRecords.catch"
  /\ pc' = Pop
  /\ last' = IF Len(pc) = 1 THEN Finished("raised") ELSE last
  /\ UNCHANGED <<still, storage>>

\* The stack is full where the frame on top has to make a call: the
\* RangeError is caught by the try block of handleQuotaExceeded or
\* attemptDataRecovery, which return; it passes through handleStorageError;
\* in saveRecords it reaches the catch block, whose own call fails the same
\* way, and leaves the frame.
SaveStackExhausted ==
  /\ pc # <<>>
  /\ Len(pc) = MaxFrames
  /\ \/ Top.at = "saveRecords" /\ Condition # "ok"
     \/ Top.at = "handleStorageError"
     \/ Top.at = "handleQuotaExceeded" /\ Len(Live) > EvictAbove
     \/ Top.at = "attemptDataRecovery" /\ (backups # {} \/ metadata)
  /\ pc' = Pop
  /\ last' = IF Len(pc) = 1 THEN Finished("raised") ELSE last
  /\ UNCHANGED <<still, storage>>

\* A small store and one above the eviction threshold, with or without a
\* snapshot that holds a record, with or without the metadata entry.
InitSave ==
  /\ \E recs \in {<<NewRecord(1)>>, StoredRecords(MaxRecords)} :
       /\ records = recs
       /\ integrityHash = HashOf(recs)
  /\ blobKind = "list"
  /\ metadata \in BOOLEAN
  /\ backups \in {{}, {Snapshot(0, FALSE, <<NewRecord(1)>>)}}
  /\ exported = NoExport
  /\ pc = <<>>
  /\ nextId = 0
  /\ adminStore = [failed |-> OmittedNum, lockout |-> OmittedNum]
  /\ now = TickMs
  /\ probe = 7 * MsPerHour
  /\ verdict = NoVerdict
  /\ last = Idle
  /\ InitEnv

NextSave ==
  \/ \E list \in {Live, <<>>}, c \in Conditions : SaveCall(list, c)
  \/ SaveMeetsPressure
  \/ \E m \in BOOLEAN : SaveWrites(m)
  \/ SaveWriteFails
  \/ SaveHandles
  \/ \E m \in BOOLEAN : SaveEvicts(m)
  \/ SaveRecovers
  \/ SaveResumes
  \/ SaveRethrows
  \/ SaveStackExhausted

SpecSave == InitSave /\ [][NextSave]_vars

\* The backup subsystem over two days: the page that holds the store is
\* unloaded and loaded again, the backup interval fires, backups are taken by
\* hand, and a saveRecords call meets quota pressure (the snapshots are pruned)
\* or a failing write (recovery runs), and the records key is overwritten from
\* outside with text that is not JSON, after which the page is unloaded.  The
\* clock moves in half days and stops at every firing of the interval.
HalfDay == 12 * MsPerHour

Loaded == backupTimer # OmittedNum

Advance ==
  /\ now < MaxHalfDays * HalfDay
  /\ Loaded => now + HalfDay <= backupTimer
  /\ now' = now + HalfDay
  /\ last' = [Idle EXCEPT !.op = "advance"]
  /\ UNCHANGED <<env, storage, exported, pc, nextId, adminStore, probe, verdict>>

TimedDone(r, op, f) ==
  /\ Persist(r.st)
  /\ lastBackup' = r.lastBackup
  /\ last' = [Idle EXCEPT !.op = op, !.script = f, !.result = "ok"]

\* setInterval(() => this.performAutomaticBackup(), BACKUP_INTERVAL).
BackupTimerFires(f, metaFirst) ==
  /\ Loaded
  /\ now = backupTimer
  /\ TimedDone(PerformAutomaticBackup(Store, lastBackup, f, metaFirst, now),
               "performAutomaticBackup", f)
  /\ backupTimer' = backupTimer + BACKUP_INTERVAL
  /\ UNCHANGED <<peers, session, version, exported, pc, nextId, adminStore, now, probe,
                 verdict>>

\* The beforeunload handler: performEmergencyBackup, and the page is gone.
UnloadDone(r, f) ==
  /\ Persist(r.st)
  /\ session' = r.session
  /\ backupTimer' = OmittedNum
  /\ last' = [Idle EXCEPT !.op = "performEmergencyBackup", !.script = f,
                          !.result = "ok"]

Unload(f, metaFirst) ==
  /\ Loaded
  /\ UnloadDone(PerformEmergencyBackup(Store, session, f, metaFirst, now), f)
  /\ UNCHANGED <<peers, lastBackup, version, exported, pc, nextId, adminStore, now,
                 probe, verdict>>

\* Something else on the origin overwrites the records key with text that is
\* not JSON.
ForeignWrite ==
  /\ Loaded
  /\ blobKind = "list"
  /\ records' = <<>>
  /\ blobKind' = "unparsable"
  /\ last' = [Idle EXCEPT !.op = "foreignWrite"]
  /\ UNCHANGED <<env, integrityHash, metadata, backups, exported, pc, nextId,
                 adminStore, now, probe, verdict>>

\* The constructor from startPeriodicTasks on: the interval is set and
\* checkAndPerformBackup runs on the store initializeStorage left.
ConstructDone(i, r, f) ==
  /\ TimedDone(r, "construct", f)
  /\ version' = i.version
  /\ backupTimer' = now + BACKUP_INTERVAL

ConstructInitialized(i, f, metaFirst) ==
  ConstructDone(i, CheckAndPerformBackup(i.st, lastBackup, i.f, metaFirst, now), f)

\* The constructor, run by the first use of the store after the page loaded.
Construct(f, metaFirst) ==
  /\ ~Loaded
  /\ blobKind \in {"list", "absent"}
  /\ ConstructInitialized(InitializeStorage(Store, version, f, metaFirst),
                          f, metaFirst)
  /\ UNCHANGED <<peers, session, exported, pc, nextId, adminStore, now, probe,
                 verdict>>

\* The outcomes of the two writes of an automatic backup.
BackupScripts == {<<>>, <<"quota">>, <<"ok", "quota">>}

\* The constructor's writes succeed, or the host rejects the write of the
\* startup snapshot (the write of the fingerprint before it succeeds).
ConstructScripts == {<<>>, <<"ok", "quota">>}

\* After construction at host time 0 on a fresh host: the startup backup was
\* written, or the host rejected its write.
InitBackup ==
  /\ records = <<>>
  /\ blobKind = "list"
  /\ integrityHash = HashOf(<<>>)
  /\ metadata = TRUE
  /\ \/ backups = {Snapshot(0, FALSE, <<>>)} /\ lastBackup = 0
     \/ backups = {} /\ lastBackup = OmittedNum
  /\ exported = NoExport
  /\ pc = <<>>
  /\ nextId = 0
  /\ adminStore = [failed |-> OmittedNum, lockout |-> OmittedNum]
  /\ now = 0
  /\ probe = 7 * MsPerHour
  /\ verdict = NoVerdict
  /\ last = Idle
  /\ session = NoSession
  /\ backupTimer = BACKUP_INTERVAL
  /\ version = STORAGE_VERSION
  /\ InitPeers

\* The page is loaded and the records key holds a list.
Ready == Loaded /\ blobKind = "list"

NextBackup ==
  \/ Advance
  \/ \E f \in BackupScripts, m \in BOOLEAN : Ready /\ BackupTimerFires(f, m)
  \/ \E m \in BOOLEAN : Unload(<<>>, m)
  \/ \E f \in ConstructScripts, m \in BOOLEAN : Construct(f, m)
  \/ ForeignWrite
  \/ Ready /\ CallCreateManualBackup(<<>>)
  \/ Ready /\ CallAddRecord(<<>>, FALSE)
  \/ \E f \in {<<"pressure">>, <<"io">>}, m \in BOOLEAN :
        Ready /\ CallSaveRecords(ListArg(Live), f, m)

SpecBackup == InitBackup /\ [][NextBackup]_vars

\* A page is loaded on a host that an earlier session left: by a release
\* that stored schema version 1.0.0 or none at all, or by the current one;
\* with no records key, or with a list that may hold an entry with an emptied
\* prefectNumber; with or without a fingerprint and a snapshot.  The page is
\* constructed, serves reads and is unloaded again.
OlderVersions == {Omitted, "1.0.0"}

LeftRecords ==
  {<<>>, <<NewRecord(1)>>, <<NewRecord(2), NewRecord(1)>>,
   <<NewRecord(1), [NewRecord(2) EXCEPT !.prefectNumber = ""]>>}

MigrateScripts == {<<>>, <<"io">>}

InitMigrate ==
  /\ blobKind \in {"list", "absent"}
  /\ records \in IF blobKind = "list" THEN LeftRecords ELSE {<<>>}
  /\ integrityHash \in {NoHash, HashOf(records)}
  /\ metadata \in BOOLEAN
  /\ backups \in {{}, {Snapshot(0, FALSE, <<NewRecord(1)>>)}}
  /\ lastBackup = IF backups = {} THEN OmittedNum ELSE 0
  /\ version \in OlderVersions \cup {STORAGE_VERSION}
  /\ session = NoSession
  /\ backupTimer = OmittedNum
  /\ exported = NoExport
  /\ pc = <<>>
  /\ nextId = 2
  /\ adminStore = [failed |-> OmittedNum, lockout |-> OmittedNum]
  /\ now = HalfDay
  /\ probe = 7 * MsPerHour
  /\ verdict = NoVerdict
  /\ last = Idle
  /\ InitPeers

NextMigrate ==
  \/ \E f \in MigrateScripts, m \in BOOLEAN : Construct(f, m)
  \/ Ready /\ CallGetRecords
  \/ \E m \in BOOLEAN : Unload(<<>>, m)

SpecMigrate == InitMigrate /\ [][NextMigrate]_vars

\* The store and its peers: listeners are registered and deinstalled, this
\* process (1) and another one (2) add records to the shared localStorage,
\* each by a read followed by a write, this process also updates, deletes,
\* saves and restores, the other's writes reach this process as storage
\* events, something else on the origin overwrites the records key with text
\* that is not JSON, and a record is saved over the alternative transport.
\* Listener "a" throws whenever it is invoked.
ListenerNames == {"a", "b"}
Throwers == {"a"}

Registered == {listeners[i] : i \in 1..Len(listeners)}

Invocation(l, list) == [listener |-> l, list |-> list]

\* notifyListeners of the store: every registered listener is invoked, in
\* order of registration; what one throws is caught and logged.
NotifyListeners(ls, list) == [i \in 1..Len(ls) |-> Invocation(ls[i], list)]

\* notifyListeners as it would be if a throwing listener ended the delivery.
\* It is the notifyListeners of the alternative transport, whose forEach has
\* no try block.
NotifyListenersUntilThrow(ls, list) ==
  LET throwing == {i \in 1..Len(ls) : ls[i] \in Throwers}
  IN SubSeq([i \in 1..Len(ls) |-> Invocation(ls[i], list)], 1,
            IF throwing = {} THEN Len(ls)
            ELSE CHOOSE i \in throwing : \A j \in throwing : i <= j)

TransportNotifyListeners(ls, list) == NotifyListenersUntilThrow(ls, list)

\* The invocations the saveRecords calls of one operation make: each list
\* reaches notifyListeners as generateDataHash has sorted it, in place.
RECURSIVE Deliveries(_, _)
Deliveries(notified, ls) ==
  IF notified = <<>> THEN <<>>
  ELSE NotifyListeners(ls, SortedInPlace(Head(notified)))
       \o Deliveries(Tail(notified), ls)

RecordsKey == "prefect_attendance_records"
HashKey == "data_integrity_hash"

\* A storage event: the key written and its new value, a list as the JSON
\* text of each entry.  Next to them, `written` keeps the list the value was
\* serialized from.
StorageEvent(key, kind, recs) ==
  [key |-> key, kind |-> kind, texts |-> StringifyEach(recs), written |-> recs]

\* The storage events one successful saveRecords of another process raises
\* here: the records key, then the fingerprint key.
RECURSIVE EventsOf(_)
EventsOf(notified) ==
  IF notified = <<>> THEN <<>>
  ELSE <<StorageEvent(RecordsKey, "list", Head(notified)),
         StorageEvent(HashKey, "text", <<>>)>>
       \o EventsOf(Tail(notified))

\* What the peers leave alone.
aloof == <<session, lastBackup, backupTimer, version, exported, pc, nextId,
           adminStore, now, probe, verdict, remote>>

\* This process is between two calls.
AtRest == tabs[1].phase = "idle"

Subscribe(l) ==
  /\ AtRest
  /\ l \notin Registered
  /\ listeners' = Append(listeners, l)
  /\ delivered' = <<>>
  /\ last' = [Idle EXCEPT !.op = "addStorageListener", !.result = "ok"]
  /\ UNCHANGED <<storage, events, tabs, aloof>>

\* The function addStorageListener returned is called.
Unsubscribe(l) ==
  /\ AtRest
  /\ l \in Registered
  /\ listeners' = SelectSeq(listeners, LAMBDA x : x # l)
  /\ delivered' = <<>>
  /\ last' = [Idle EXCEPT !.op = "deinstall", !.result = "ok"]
  /\ UNCHANGED <<storage, events, tabs, aloof>>

\* An operation of this process on the store: last.list is the records key
\* as the operation found it.
PeerDone(r, op, f) ==
  /\ Persist(r.st)
  /\ delivered' = Deliveries(r.st.notified, listeners)
  /\ last' = [Idle EXCEPT !.op = op, !.script = f, !.result = Threw(r),
                          !.list = records]
  /\ UNCHANGED <<listeners, events, aloof>>

PeerScripts == {<<>>, <<"io">>}

PeerUpdateRecord(id, u, f, metaFirst) ==
  /\ AtRest /\ blobKind = "list"
  /\ PeerDone(UpdateRecord(Store, id, u, f, metaFirst), "updateRecord", f)
  /\ UNCHANGED tabs

PeerDeleteRecord(id, f, metaFirst) ==
  /\ AtRest /\ blobKind = "list"
  /\ PeerDone(DeleteRecord(Store, id, f, metaFirst), "deleteRecord", f)
  /\ UNCHANGED tabs

\* The array saveRecords was called with, when the call is over: the call
\* reaches generateDataHash(records) if and only if its write succeeded.
LeftToCaller(recs, r) == IF r.threw THEN recs ELSE SortedInPlace(recs)

PeerSaveRecords(arg, f, metaFirst) ==
  LET r == SaveRecordsCall(Store, arg, f, metaFirst)
  IN /\ AtRest /\ blobKind = "list"
     /\ Persist(r.st)
     /\ delivered' = Deliveries(r.st.notified, listeners)
     /\ last' = [Idle EXCEPT !.op = "saveRecords", !.script = f,
                             !.result = Threw(r), !.list = arg.records,
                             !.left = LeftToCaller(arg.records, r)]
     /\ UNCHANGED <<listeners, events, aloof, tabs>>

PeerRestoreFromBackup(payload, f, metaFirst) ==
  /\ AtRest /\ blobKind = "list"
  /\ PeerDone(RestoreFromBackup(Store, payload, f, metaFirst),
              "restoreFromBackup", f)
  /\ UNCHANGED tabs

\* addRecord, first statement: process p reads the records.  The id of the
\* record it adds is a fresh UUID, which sorts before or after those stored.
TabReads(p, id) ==
  /\ tabs[p].phase = "idle"
  /\ blobKind = "list"
  /\ \A i \in 1..Len(records) : records[i].id # id
  /\ \A q \in Tabs : tabs[q].phase = "idle" \/ tabs[q].rec.id # id
  /\ tabs' = [tabs EXCEPT ![p] = [phase |-> "read", list |-> GetRecords(records),
                                  rec |-> NewRecord(id)]]
  /\ delivered' = <<>>
  /\ last' = [Idle EXCEPT !.op = "addRecord.getRecords", !.result = "ok"]
  /\ UNCHANGED <<storage, listeners, events, aloof>>

\* What process p has read, with its record pushed.
Pushed(p) == Append(tabs[p].list, tabs[p].rec)

TabDone(p, r, f) ==
  /\ Persist(r.st)
  /\ tabs' = [tabs EXCEPT ![p] = [@ EXCEPT !.phase = "idle", !.list = <<>>]]
  /\ delivered' = IF p = 1 THEN Deliveries(r.st.notified, listeners) ELSE <<>>
  /\ events' = IF p = 1 THEN events ELSE events \o EventsOf(r.st.notified)
  /\ last' = [Idle EXCEPT !.op = "addRecord", !.script = f, !.result = Threw(r),
                          !.list = records, !.rec = tabs[p].rec]
  /\ UNCHANGED <<listeners, aloof>>

\* addRecord as it would be if its write were made on the records stored at
\* that moment.
TabWritesFresh(p, f, metaFirst) ==
  /\ tabs[p].phase = "read"
  /\ p = 1 \/ (f = <<>> /\ Len(events) + 2 <= MaxEvents)
  /\ TabDone(p, SaveRecords(Store, Append(GetRecords(records), tabs[p].rec),
                            f, metaFirst), f)

\* addRecord, the rest: saveRecords of what was read, the record pushed.  The
\* other process's writes succeed and raise storage events here.
TabWrites(p, f, metaFirst) ==
  /\ tabs[p].phase = "read"
  /\ p = 1 \/ (f = <<>> /\ Len(events) + 2 <= MaxEvents)
  /\ TabDone(p, SaveRecords(Store, Pushed(p), f, metaFirst), f)

\* The handler of the storage event as it would be if it did not look at the
\* key.
DeliverStorageEventOfAnyKey ==
  /\ AtRest
  /\ events # <<>>
  /\ events' = Tail(events)
  /\ delivered' = IF Head(events).kind \in {"list", "text"}
                  THEN NotifyListeners(listeners, ParseEach(Head(events).texts))
                  ELSE <<>>
  /\ last' = [Idle EXCEPT !.op = "storageEvent", !.result = "ok",
                          !.arg = Head(events).kind,
                          !.payload = Head(events).texts,
                          !.flag = (Head(events).key = RecordsKey)]
  /\ UNCHANGED <<storage, listeners, tabs, aloof>>

\* The handler of the window's storage event runs on the oldest queued event.
DeliverStorageEvent ==
  /\ AtRest
  /\ events # <<>>
  /\ events' = Tail(events)
  /\ delivered' = IF Head(events).key = RecordsKey /\ Head(events).kind = "list"
                  THEN NotifyListeners(listeners, ParseEach(Head(events).texts))
                  ELSE <<>>
  /\ last' = [Idle EXCEPT !.op = "storageEvent", !.result = "ok",
                          !.arg = Head(events).kind,
                          !.payload = Head(events).texts,
                          !.flag = (Head(events).key = RecordsKey)]
  /\ UNCHANGED <<storage, listeners, tabs, aloof>>

\* Something else on the origin overwrites the records key with text that is
\* not JSON; the storage event reaches this process.
PeerForeignWrite ==
  /\ blobKind = "list"
  /\ Len(events) < MaxEvents
  /\ records' = <<>>
  /\ blobKind' = "unparsable"
  /\ events' = Append(events, StorageEvent(RecordsKey, "unparsable", <<>>))
  /\ delivered' = <<>>
  /\ last' = [Idle EXCEPT !.op = "foreignWrite"]
  /\ UNCHANGED <<integrityHash, metadata, backups, listeners, tabs, aloof>>

\* saveAttendance of the alternative transport: the backend has stored the
\* record, notifyListeners() fetches the records and hands them on.
TransportSaveAttendance(list) ==
  /\ AtRest
  /\ delivered' = TransportNotifyListeners(listeners, list)
  /\ last' = [Idle EXCEPT !.op = "transport.saveAttendance", !.result = "ok",
                          !.list = list]
  /\ UNCHANGED <<storage, listeners, events, tabs, aloof>>

PeerUpdates == {[NoUpdates EXCEPT !.prefectNumber = "7"]}

InitPeerStore ==
  /\ records = <<>>
  /\ blobKind = "list"
  /\ integrityHash = HashOf(<<>>)
  /\ metadata = TRUE
  /\ backups = {Snapshot(0, FALSE, <<>>)}
  /\ exported = NoExport
  /\ pc = <<>>
  /\ nextId = 0
  /\ adminStore = [failed |-> OmittedNum, lockout |-> OmittedNum]
  /\ now = TickMs
  /\ probe = 7 * MsPerHour
  /\ verdict = NoVerdict
  /\ last = Idle
  /\ InitEnv

NextPeers ==
  \/ \E l \in ListenerNames : Subscribe(l)
  \/ \E l \in ListenerNames : Unsubscribe(l)
  \/ \E p \in Tabs, id \in Ids : TabReads(p, id)
  \/ \E p \in Tabs, f \in PeerScripts, m \in BOOLEAN : TabWrites(p, f, m)
  \/ \E id \in Ids, u \in PeerUpdates : PeerUpdateRecord(id, u, <<>>, FALSE)
  \/ \E id \in Ids : PeerDeleteRecord(id, <<>>, FALSE)
  \/ \E f \in PeerScripts, m \in BOOLEAN :
        PeerSaveRecords(ListArg(Live), f, m)
  \/ \E payload \in ForeignPayloads : PeerRestoreFromBackup(payload, <<>>, FALSE)
  \/ DeliverStorageEvent
  \/ PeerForeignWrite
  \/ \E list \in {<<>>, <<NewRecord(1)>>} : TransportSaveAttendance(list)

\* JavaScript runs addRecord to completion, and the event loop runs the
\* handler of a queued storage event once the process is between two calls.
SpecPeers ==
  /\ InitPeerStore
  /\ [][NextPeers]_vars
  /\ WF_vars(\E f \in PeerScripts, m \in BOOLEAN : TabWrites(1, f, m))
  /\ SF_vars(DeliverStorageEvent)

\* Statistics over a stored list: up to MaxTally records of two prefects,
\* marked before 07:00, after it, or on the next day at 07:00 sharp, with a
\* role of the ten, or (stored by a restore, which checks only that a role is
\* there) another one.
TallyRoles == {"Senior", "Head", "Prefect"}

TallyPool ==
  [id : {1}, prefectNumber : PrefectNumbers, role : TallyRoles,
   timestamp : Timestamps, date : {0}]

\* The i-th stored record: its id is i and its date the day of its timestamp.
Tallied(r, i) ==
  [r EXCEPT !.id = i, !.date = LocalDateString(r.timestamp)]

TallyLists ==
  UNION {{[i \in 1..n |-> Tallied(l[i], i)] : l \in [1..n -> TallyPool]} :
         n \in 0..MaxTally}

Queries == {"42", "7", "4", ""}

InitTally ==
  /\ records \in TallyLists
  /\ blobKind = "list"
  /\ integrityHash = HashOf(records)
  /\ metadata = TRUE
  /\ backups = {Snapshot(0, FALSE, <<>>)}
  /\ exported = NoExport
  /\ pc = <<>>
  /\ nextId = MaxTally
  /\ adminStore = [failed |-> OmittedNum, lockout |-> OmittedNum]
  /\ now = 2 * MsPerDay
  /\ probe = 7 * MsPerHour
  /\ verdict = NoVerdict
  /\ last = Idle
  /\ InitEnv

CallGetDailyStats(date) ==
  /\ last' = [Idle EXCEPT !.op = "getDailyStats", !.result = "ok",
                          !.count = date,
                          !.stats = GetDailyStats(GetRecords(records), date)]
  /\ UNCHANGED <<env, storage, exported, pc, nextId, adminStore, now, probe, verdict>>

CallGetPrefectStats(query) ==
  /\ last' = [Idle EXCEPT !.op = "getPrefectStats", !.result = "ok",
                          !.prefectNumber = query,
                          !.stats = GetPrefectStats(GetRecords(records), query)]
  /\ UNCHANGED <<env, storage, exported, pc, nextId, adminStore, now, probe, verdict>>

NextTally ==
  \/ \E date \in Dates : CallGetDailyStats(date)
  \/ \E query \in Queries : CallGetPrefectStats(query)

SpecTally == InitTally /\ [][NextTally]_vars

\* The same calls made on the domain over local storage and on the domain
\* over the alternative transport, both starting empty, at 06:30 of day 0.
\* The write of the local retention cleanup succeeds or fails on quota.
TransportScripts == {<<>>, <<"ok", "quota">>}

InitTransports ==
  /\ records = <<>>
  /\ blobKind = "list"
  /\ integrityHash = HashOf(<<>>)
  /\ metadata = TRUE
  /\ backups = {Snapshot(0, FALSE, <<>>)}
  /\ exported = NoExport
  /\ pc = <<>>
  /\ nextId = 0
  /\ adminStore = [failed |-> OmittedNum, lockout |-> OmittedNum]
  /\ now = 6 * MsPerHour + 30 * MsPerMinute
  /\ probe = 7 * MsPerHour
  /\ verdict = NoVerdict
  /\ last = Idle
  /\ InitEnv

transported == <<session, lastBackup, backupTimer, version, listeners,
                 delivered, events, tabs, exported, pc, adminStore, now, probe,
                 verdict>>

SaveOnBothDone(l, t, prefectNumber, role, timestamp, f) ==
  /\ Persist(l.st)
  /\ remote' = t.remote
  /\ nextId' = nextId + 1
  /\ last' = [Idle EXCEPT !.op = "save", !.result = l.result, !.rec = l.rec,
                          !.prefectNumber = prefectNumber, !.role = role,
                          !.timestamp = timestamp, !.faulted = Faulted(f),
                          !.arg = t.result]

\* One record id serves both calls, so that the two stores can be compared.
SaveOnBoth(prefectNumber, role, timestamp, f) ==
  /\ nextId < MaxId
  /\ SaveOnBothDone(SaveManualAttendance(Store, nextId, prefectNumber, role,
                                         timestamp, f, FALSE, now),
                    TransportSaveManualAttendance(remote, nextId, prefectNumber,
                                                  role, timestamp, now),
                    prefectNumber, role, timestamp, f)
  /\ UNCHANGED transported

UpdateOnBothDone(l, t, id) ==
  /\ Persist(l.st)
  /\ remote' = t.remote
  /\ last' = [Idle EXCEPT !.op = "update", !.result = l.result, !.rec = l.rec,
                          !.id = id, !.arg = t.result]

UpdateOnBoth(id, u) ==
  /\ UpdateOnBothDone(UpdateAttendance(Store, id, u, <<>>, FALSE),
                      TransportUpdateAttendance(remote, id, u), id)
  /\ UNCHANGED <<transported, nextId>>

DeleteOnBothDone(l, t, id) ==
  /\ Persist(l.st)
  /\ remote' = t.remote
  /\ last' = [Idle EXCEPT !.op = "delete", !.result = l.result, !.id = id,
                          !.arg = t.result]

DeleteOnBoth(id) ==
  /\ DeleteOnBothDone(DeleteAttendance(Store, id, <<>>, FALSE),
                      TransportDeleteAttendance(remote, id), id)
  /\ UNCHANGED <<transported, nextId>>

NextTransports ==
  \/ \E p \in PrefectNumbers, r \in Roles, ts \in Timestamps,
        f \in TransportScripts : SaveOnBoth(p, r, ts, f)
  \/ \E id \in Ids, u \in Updates : UpdateOnBoth(id, u)
  \/ \E id \in Ids : DeleteOnBoth(id)

SpecTransports == InitTransports /\ [][NextTransports]_vars

\* The on-time classification of one record timestamp.
InitStats ==
  /\ records = <<>>
  /\ blobKind = "list"
  /\ integrityHash = HashOf(<<>>)
  /\ metadata = TRUE
  /\ backups = {Snapshot(0, FALSE, <<>>)}
  /\ exported = NoExport
  /\ pc = <<>>
  /\ nextId = 0
  /\ adminStore = [failed |-> OmittedNum, lockout |-> OmittedNum]
  /\ now = 0
  /\ probe \in ProbeTimes
  /\ verdict = NoVerdict
  /\ last = Idle
  /\ InitEnv

NextStats == \E site \in Sites : Classify(site)

SpecStats == InitStats /\ [][NextStats]_vars

-----------------------------------------------------------------------------
(* Claims about the attendance domain, checked under Spec                  *)

Triple(r) == <<r.prefectNumber, r.role, r.date>>

LiveIds(recs) == {recs[i].id : i \in 1..Len(recs)}

Without(recs, id) == SelectSeq(recs, LAMBDA r : r.id # id)

\* C1: in every state reachable through save, saveBulk, update and delete from
\* the empty store, no two distinct live records share the same
\* (prefectNumber, role, date) triple.
C1_UniqueTriples ==
  \A i, j \in 1..Len(Live) : i # j => Triple(Live[i]) # Triple(Live[j])

\* C2: a save that returns a record leaves the live record set equal to the
\* previous live set plus exactly the returned record (the retention cleanup
\* prunes nothing), stated for the host that fails no write.
C2_SaveAddsExactlyTheRecord ==
  [][(last'.op = "save" /\ last'.result = "ok" /\ ~last'.faulted)
       => Live' = Append(Live, last'.rec)]_vars

\* C3: of two successive saves of the same (prefectNumber, role) the first of
\* which succeeded, the second fails with DuplicateAttendance and changes
\* nothing when both timestamps fall on the same calendar day, and succeeds
\* with both records live when they fall on different days; stated for the
\* host that fails no write.
C3_SecondSaveOfTheDay ==
  [][(/\ last.op = "save" /\ last.result = "ok" /\ ~last.faulted
      /\ last'.op = "save" /\ ~last'.faulted
      /\ last'.prefectNumber = last.prefectNumber /\ last'.role = last.role)
       => IF LocalDateString(last'.timestamp) = LocalDateString(last.timestamp)
          THEN last'.result = "DuplicateAttendance" /\ Live' = Live
          ELSE /\ last'.result = "ok"
               /\ \E i, j \in 1..Len(Live') :
                    i # j /\ Live'[i] = last.rec /\ Live'[j] = last'.rec]_vars

\* The (prefectNumber, role) pairs one saveBulk call ended in success or errors.
BulkPairs(l) ==
  {<<l.success[i].prefectNumber, l.success[i].role>> : i \in 1..Len(l.success)}
  \cup {<<l.errors[i].prefectNumber, l.errors[i].role>> : i \in 1..Len(l.errors)}

\* C4: saveBulk ends every entry in exactly one of success or errors, and two
\* entries with the same (prefectNumber, role) passed in one call on an empty
\* store end with the first in success and the second in errors, citing the
\* duplicate.
C4_BulkPartialFailure ==
  [][last'.op = "saveBulk"
       => /\ Len(last'.success) + Len(last'.errors) = last'.count
          /\ (/\ Live = <<>> /\ ~last'.faulted /\ last'.count = 2
              /\ Cardinality(BulkPairs(last')) = 1)
               => /\ Len(last'.success) = 1
                  /\ Len(last'.errors) = 1
                  /\ last'.errors[1].error = "DuplicateAttendance"]_vars

\* What C5 promises of update(id, u) on the live set: NotFound for an absent
\* id, DuplicateAttendance when a changed prefectNumber or role makes the
\* resulting triple that of another record, both without a change; otherwise
\* the record with that id holds the fields of u and the rest of its own, and
\* every other record is as before.
C5Promise(id, u) ==
  IF id \notin LiveIds(Live)
  THEN last'.result = "NotFound" /\ Live' = Live
  ELSE IF /\ u.prefectNumber # Omitted \/ u.role # Omitted
          /\ \E i, j \in 1..Len(Live) :
               /\ Live[i].id = id /\ Live[j].id # id
               /\ Triple(Merge(Live[i], u)) = Triple(Live[j])
  THEN last'.result = "DuplicateAttendance" /\ Live' = Live
  ELSE /\ last'.result = "ok"
       /\ Len(Live') = Len(Live)
       /\ \A i \in 1..Len(Live) :
            IF Live[i].id = id
            THEN Live'[i] = [Merge(Live[i], u) EXCEPT !.id = id]
            ELSE Live'[i] = Live[i]

\* C5: update(id, partialFields) behaves as C5Promise says, stated for the
\* host that fails no write and for updates that keep prefectNumber non-empty.
C5_UpdateContract ==
  [][last'.op = "update"
       => \A u \in Updates :
            (u.prefectNumber # "" /\ Update(last'.id, u, <<>>, FALSE))
              => C5Promise(last'.id, u)]_vars

\* C6: no two live records have the same id, and no update changes the id of
\* an existing record (the ids live after an update were live before it, none
\* of them twice).
C6_IdsUniqueAndImmutable ==
  [][/\ \A i, j \in 1..Len(Live') : i # j => Live'[i].id # Live'[j].id
     /\ last'.op = "update" => LiveIds(Live') \subseteq LiveIds(Live)]_vars

-----------------------------------------------------------------------------
(* Claims about the admin guard, checked under SpecAuth                    *)

Unset == [failed |-> OmittedNum, lockout |-> OmittedNum]

\* C8: from failedAttempts = 0 and no lockout, a call made after exactly 10
\* consecutive wrong-PIN calls and inside the 15 minutes that follow the tenth
\* fails with LockedOut whether its PIN is right or wrong; once those 15
\* minutes have elapsed, a call with the correct PIN succeeds and leaves the
\* failure counter and the lockout expiry unset.
C8_LockoutBoundary ==
  [][last'.op = "auth"
       => /\ (/\ last.streak = MAX_FAILED_ATTEMPTS
              /\ now < last.tenthAt + LOCKOUT_DURATION)
               => last'.result = "LockedOut"
          /\ (/\ last.streak >= MAX_FAILED_ATTEMPTS /\ ~last.lateWrong
              /\ now >= last.tenthAt + LOCKOUT_DURATION
              /\ last'.pin = ADMIN_PIN)
               => last'.result = "ok" /\ adminStore' = Unset]_vars

\* The correct PIN has just been accepted after a lockout ran out.
C8_Witness ==
  /\ last.op = "auth" /\ last.result = "ok" /\ last.tenthAt # OmittedNum
  /\ now >= last.tenthAt + LOCKOUT_DURATION
  /\ adminStore = Unset

\* C9: while a lockout is in effect (now < lockoutUntil) every
\* checkAdminAccess call, with a correct or an incorrect PIN, fails with
\* LockedOut and leaves the persisted failure counter and the persisted
\* lockout expiry unchanged.
C9_LockedCallsChangeNothing ==
  [][(last'.op = "auth" /\ now < StoredNumber(adminStore.lockout))
       => last'.result = "LockedOut" /\ adminStore' = adminStore]_vars

\* A wrong PIN has just been rejected, uncounted, during a lockout.
C9_Witness ==
  /\ last.op = "auth" /\ last.pin # ADMIN_PIN /\ last.result = "LockedOut"
  /\ now < StoredNumber(adminStore.lockout)
  /\ last.streak > adminStore.failed

-----------------------------------------------------------------------------
(* Claims about the on-time classification, checked under SpecStats        *)

SevenOClock == 7 * MsPerHour

\* C10 as stated: a record timestamped 07:00:00 local time is on time, one
\* timestamped 07:00:01 is late, one timestamped 06:59:59 is on time.
C10_LateFromFirstSecond ==
  verdict.site # "none"
    => /\ probe = SevenOClock => verdict.status = "On Time"
       /\ probe = SevenOClock + 1000 => verdict.status = "Late"
       /\ probe = SevenOClock - 1000 => verdict.status = "On Time"

\* C10 amended: at every classification site a record is on time exactly when
\* its local time is before 07:01:00; 06:59:59, 07:00:00 and 07:00:01 are on
\* time (seconds are not looked at) and 07:01:00 is the first late instant.
C10_LateFromFirstMinute ==
  verdict.site # "none"
    => (verdict.status = "On Time" <=> probe < SevenOClock + MsPerMinute)

\* A record timestamped 07:00:01 has been classified on time.
C10_Witness ==
  /\ verdict.site = "getDailyStats" /\ probe = SevenOClock + 1000
  /\ verdict.status = "On Time"

\* C11: every classification site labels a record on time if and only if its
\* local hour is below 7, or is 7 with minute 0, and late otherwise; the same
\* record classified at one site after another gets the same label.
C11_SitesAgree ==
  [][verdict'.site # "none"
       => /\ verdict'.status = "On Time"
               <=> \/ GetHours(probe) < 7
                   \/ GetHours(probe) = 7 /\ GetMinutes(probe) = 0
          /\ verdict'.status \in {"On Time", "Late"}
          /\ verdict.site # "none" => verdict'.status = verdict.status]_vars

\* The per-day report has labelled a record of 08:00:00 (minute 0, hour 8) late.
C11_Witness ==
  /\ verdict.site = "exportAttendance" /\ probe = 8 * MsPerHour
  /\ verdict.status = "Late"

-----------------------------------------------------------------------------
(* Claims about the record store                                           *)

Count(list, r) == Cardinality({i \in 1..Len(list) : list[i] = r})

\* b holds the records of a in some order.
IsPermutation(a, b) ==
  /\ Len(a) = Len(b)
  /\ \A i \in 1..Len(a) : Count(a, a[i]) = Count(b, a[i])

\* C12: fingerprint(records) equals fingerprint(p(records)) for every record
\* list and every permutation p of it.
C12_FingerprintIgnoresOrder ==
  [][(/\ last.op = "generateDataHash" /\ last'.op = "generateDataHash"
      /\ IsPermutation(last.list, last'.list))
       => last'.hash = last.hash]_vars

\* The records of a backup string that pass restore's structural check.
ValidEntries(texts) == SelectSeq(ParseEach(texts), IsValidRecord)

Elements(list) == {list[i] : i \in 1..Len(list)}

\* C13: a restoreFromBackup of the string createManualBackup returned, when it
\* returns, leaves the live records equal (same ids, same field values, same
\* order) to the live records the backup was taken from, whatever was added,
\* updated or deleted in between.
C13_RoundTrip ==
  [][(/\ last'.op = "restoreFromBackup"
      /\ last'.result = "ok"
      /\ exported.kind = "valid"
      /\ last'.payload = exported.records)
     => GetRecords(records') = exported.live]_vars

\* A restore of a backup that held a record has returned, and the live
\* records are the ones the backup was taken from.
C13_Witness ==
  /\ last.op = "restoreFromBackup"
  /\ last.result = "ok"
  /\ exported.kind = "valid"
  /\ last.payload = exported.records
  /\ exported.live # <<>>
  /\ Live = exported.live

\* C14: a payload without a records field (the JSON text null included), or
\* whose records field is not a list, makes restoreFromBackup fail with
\* 'Invalid backup format' and leaves the live records unchanged; any other
\* payload, when the call returns, leaves exactly its structurally valid
\* entries live, and no previously live record that is not in the payload.
C14_RestoreRejectsOrReplaces ==
  [][last'.op = "restoreFromBackup"
     => /\ last'.arg \in {"noRecords", "notList", "null"}
           => /\ last'.result = "Invalid backup format"
              /\ GetRecords(records') = Live
        /\ (last'.arg = "valid" /\ last'.result = "ok")
           => /\ GetRecords(records') = ValidEntries(last'.payload)
              /\ \A r \in Elements(Live) \ Elements(ParseEach(last'.payload)) :
                    r \notin Elements(GetRecords(records'))]_vars

\* C16: a saveRecords call either returns with the persisted list equal to
\* its argument or raises with the persisted list as it was; a call rejected
\* for an argument that is not a list, or too large, changes neither the
\* live records nor the snapshots.
C16_SaveIsAtomic ==
  [][last'.op = "saveRecords"
     => /\ last'.result = "ok" => records' = last'.list
        /\ last'.result = "raised" => records' = records
        /\ last'.arg \in {"notList", "oversize"}
           => GetRecords(records') = Live /\ backups' = backups]_vars

\* The write of a saveRecords call failed / the write its recovery made
\* failed too.
WriteFailed(f) == Outcome(f) \in {"quota", "io"}
RecoveryFailed(f) == Outcome(f) = "io" /\ WriteFailed(Rest(f))

\* C17 as stated: after a failed write saveRecords raises only if the
\* recovery failed as well.
C17_RaisesOnlyIfRecoveryFails ==
  [][(last'.op = "saveRecords" /\ last'.arg = "list" /\ WriteFailed(last'.script))
     => (last'.result = "raised" <=> RecoveryFailed(last'.script))]_vars

\* C17: after a failed write saveRecords runs its handling and then raises to
\* the caller in every case; where the recovery succeeded the live records
\* are those of a snapshot (or none, from the metadata entry) and the caller
\* still gets the error.
C17_FailedWriteAlwaysRaises ==
  [][(last'.op = "saveRecords" /\ last'.arg = "list" /\ WriteFailed(last'.script))
     => /\ last'.result = "raised"
        /\ last'.script = <<"io">>
           => records' \in {b.records : b \in backups} \cup {<<>>}]_vars

\* A write failed, recovery put a snapshot's records back, and the call raised.
C17_Witness ==
  /\ last.op = "saveRecords"
  /\ last.script = <<"io">>
  /\ last.result = "raised"
  /\ last.list # records
  /\ records # <<>>
  /\ \E b \in backups : b.records = records

\* The persisted entries that hold all four required fields.
Complete(r) ==
  r.id # NoId /\ r.prefectNumber # "" /\ r.role # "" /\ r.timestamp # OmittedNum

\* C18: getRecords returns exactly the persisted entries that hold all four
\* required fields, in persisted order, and writes nothing.
C18_ReadFiltersAndWritesNothing ==
  [][last'.op = "getRecords"
     => /\ \E pos \in [1..Len(last'.list) -> 1..Len(records)] :
             /\ \A k \in 1..Len(last'.list) : last'.list[k] = records[pos[k]]
             /\ \A k \in 1..(Len(last'.list) - 1) : pos[k] < pos[k + 1]
             /\ \A i \in 1..Len(records) :
                   Complete(records[i]) <=> \E k \in 1..Len(last'.list) : pos[k] = i
        /\ last'.result = "ok"
        /\ storage' = storage]_vars

\* A read has dropped an incomplete entry and returned a complete one.
C18_Witness ==
  /\ last.op = "getRecords"
  /\ last.list # <<>>
  /\ Len(last.list) < Len(records)

\* A fingerprint is stored and differs from the one of the live records.
Mismatch ==
  /\ integrityHash.set
  /\ GenerateDataHash(integrityHash.of) # GenerateDataHash(Live)

\* The fingerprint of the live records is the stored one afterwards.
FingerprintStored ==
  /\ integrityHash'.set
  /\ GenerateDataHash(integrityHash'.of) = GenerateDataHash(Live)

\* What C20 promises of one verifyDataIntegrity step, given whether it met a
\* mismatch.
C20Promise(mismatch) ==
  /\ ~mismatch
     => last'.flag /\ FingerprintStored /\ records' = records
        /\ backups' = backups
  /\ mismatch => (last'.flag <=> ~WriteFailed(last'.script))

\* C20 as stated: without a stored fingerprint, or with a matching one,
\* verifyDataIntegrity stores the computed fingerprint and returns true with
\* the live records unchanged; only on a mismatch it runs recovery and returns
\* recovery's success.
C20_VerifyStoresOrRecovers ==
  [][last'.op = "verifyDataIntegrity" => C20Promise(Mismatch)]_vars

\* The same, except that the write of the fingerprint can fail, and then the
\* call returns false and has stored nothing.  On a mismatch the call returns
\* whether recovery's write succeeded, and after a successful recovery the
\* persisted list is that of a snapshot (or empty, from the metadata entry).
C20Amended(mismatch) ==
  /\ (~mismatch /\ ~WriteFailed(last'.script))
     => last'.flag /\ FingerprintStored /\ records' = records
        /\ backups' = backups
  /\ (~mismatch /\ WriteFailed(last'.script))
     => ~last'.flag /\ storage' = storage
  /\ mismatch
     => /\ last'.flag <=> ~WriteFailed(last'.script)
        /\ last'.flag => records' \in {b.records : b \in backups} \cup {<<>>}

\* C20: verifyDataIntegrity stores the fingerprint and returns true when none
\* is stored or the stored one matches, unless that write fails (false,
\* nothing stored); on a mismatch it runs recovery and returns its success.
C20_VerifyStoresUnlessWriteFails ==
  [][last'.op = "verifyDataIntegrity" => C20Amended(Mismatch)]_vars

\* A verification with a matching fingerprint has returned false because the
\* fingerprint could not be written.
C20_Witness ==
  /\ last.op = "verifyDataIntegrity"
  /\ ~last.flag
  /\ WriteFailed(last.script)
  /\ ~Mismatch

\* A verification has met a mismatch and recovery has put a snapshot back.
C20_WitnessRecovery ==
  /\ last.op = "verifyDataIntegrity"
  /\ last.flag
  /\ Live # <<>>
  /\ integrityHash.of = records
  /\ \E b \in backups : b.records = records /\ b.manual

-----------------------------------------------------------------------------
(* Claims about reads of damaged storage, checked under SpecRead           *)

ReadOfDamagedBlobIsEmpty ==
  [][(pc # <<>> /\ pc' = <<>> /\ blobKind # "list")
     => last'.result = "ok" /\ last'.list = <<>>]_vars

-----------------------------------------------------------------------------
(* Claims about eviction, checked under SpecEvict                          *)

\* C15: a saveRecords call on a store of MaxRecords (1200) records that meets
\* quota usage above 90% and completes leaves exactly EvictKeep (800) live
\* records, the most recent by timestamp.
C15_EvictsToMostRecent ==
  [][(/\ last'.op = "saveRecords"
      /\ Len(Live) = MaxRecords
      /\ last'.list = Live
      /\ last'.script = <<"pressure">>
      /\ last'.result = "ok")
     => /\ Len(GetRecords(records')) = EvictKeep
        /\ GetRecords(records') = FirstN(SortByTimestampDesc(Live), EvictKeep)]_vars

-----------------------------------------------------------------------------
(* Claims about backups and the page life cycle, checked under SpecBackup  *)

\* The latest snapshots: those no other snapshot is younger than.
Latest(bs) == {b \in bs : \A c \in bs : c.ts <= b.ts}

\* A saveRecords call whose write failed and whose handling ran
\* attemptDataRecovery, all further writes succeeding.
RecoveryRan(l) == l.op = "saveRecords" /\ l.script = <<"io">>

\* C21: after attemptDataRecovery the live records are those of the snapshot
\* with the greatest creation timestamp if a snapshot exists, and the
\* previous live records if none exists.
C21_RecoveryRestoresLatestSnapshot ==
  [][RecoveryRan(last')
     => IF backups # {}
        THEN \E b \in Latest(backups) : GetRecords(records') = b.records
        ELSE GetRecords(records') = Live]_vars

\* `after` is what pruning leaves of `existed`: the KeepBackups snapshots with
\* the greatest creation timestamps, all of them if there are no more.
C22Pruned(existed, after) ==
  /\ Cardinality(after) = Min(KeepBackups, Cardinality(existed))
  /\ after \subseteq existed
  /\ \A k \in after, r \in existed \ after : k.ts >= r.ts

\* C22: after a performAutomaticBackup whose writes succeed, and after a
\* saveRecords call that met quota pressure, the snapshots that remain are the
\* KeepBackups (5) most recent of those that existed, manual and automatic
\* alike, and the snapshot the automatic backup wrote is among them.
C22_PrunesToFiveMostRecent ==
  [][/\ (last'.op = "performAutomaticBackup" /\ last'.script = <<>>)
        => /\ C22Pruned(WithSnapshot(backups, Snapshot(now, FALSE, Live)), backups')
           /\ Snapshot(now, FALSE, Live) \in backups'
     /\ (last'.op = "saveRecords" /\ last'.script = <<"pressure">>)
        => C22Pruned(backups, backups')]_vars

\* An automatic backup is due at startup.
BackupDue == lastBackup = OmittedNum \/ now - lastBackup > BACKUP_INTERVAL

\* The step took an automatic backup / left the snapshots and the
\* last-backup time alone.
BackupTaken ==
  /\ Snapshot(now, FALSE, GetRecords(records')) \in backups'
  /\ lastBackup' = now
BackupNotTaken == backups' = backups /\ lastBackup' = lastBackup

\* C23: on a host that fails no write, the constructor takes an automatic
\* backup if and only if no automatic backup is recorded or the recorded one
\* is more than 24 hours old, and every firing of the 24-hour interval takes
\* one; an automatic backup writes a snapshot of the live records keyed by
\* the current time and records that time as the last backup; a manual
\* backup leaves the recorded time alone.
C23_AutomaticBackupSchedule ==
  [][/\ (last'.op = "construct" /\ last'.script = <<>>)
        => IF BackupDue THEN BackupTaken ELSE BackupNotTaken
     /\ (last'.op = "performAutomaticBackup" /\ last'.script = <<>>)
        => BackupTaken /\ now = backupTimer /\ backupTimer' = now + BACKUP_INTERVAL
     /\ last'.op = "createManualBackup" => lastBackup' = lastBackup]_vars

\* A page loaded a day and a half after the last automatic backup has taken
\* one, with manual backups stored in between.
C23_Witness ==
  /\ last.op = "construct"
  /\ now > BACKUP_INTERVAL
  /\ lastBackup = now
  /\ Snapshot(now, FALSE, Live) \in backups
  /\ \E b \in backups : b.manual /\ b.ts < now

\* A page loaded exactly 24 hours after the last automatic backup has taken
\* none.
C23_WitnessNotDue ==
  /\ last.op = "construct"
  /\ now = BACKUP_INTERVAL
  /\ lastBackup = 0

\* The record lists recovery can take from the 'attendance_backup_' entries:
\* those of the snapshots, and the empty list.
Recoverable == {b.records : b \in backups} \cup {<<>>}

C24_WitnessRecovery ==
  /\ RecoveryRan(last)
  /\ session.set
  /\ session.records \notin Recoverable

-----------------------------------------------------------------------------
(* Claims about schema migration, checked under SpecMigrate                *)

\* Record m is record r with the current version and the migrated marker
\* added and its five fields untouched.
Stamped(r, m) ==
  /\ DOMAIN m = DOMAIN r \cup {"migrated", "version"}
  /\ m.migrated = TRUE
  /\ m.version = STORAGE_VERSION
  /\ \A k \in {"id", "prefectNumber", "role", "timestamp", "date"} : m[k] = r[k]

\* What a constructor whose writes succeed leaves: on a stored schema version
\* that is absent or differs from the current one, every structurally valid
\* record rewritten with the current version and a migrated marker, its
\* other fields unchanged, none dropped, and the current version stored; on
\* the current version (and a fingerprint that matches) no record rewritten.
C25Migrated ==
  IF version # STORAGE_VERSION
  THEN /\ version' = STORAGE_VERSION
       /\ blobKind' = "list"
       /\ Len(records') = Len(Live)
       /\ \A i \in 1..Len(Live) : Stamped(Live[i], records'[i])
  ELSE version' = version /\ (~Mismatch => records' = records)

\* C25 as stated: initialization on an older stored version migrates every
\* valid record and stores the current version before any read is served; on
\* the current version it rewrites no record.
C25_MigratesBeforeFirstRead ==
  [][/\ (last'.op = "construct" /\ last'.script = <<>>) => C25Migrated
     /\ last'.op = "getRecords" => Loaded /\ version = STORAGE_VERSION]_vars

\* C25 amended: a read is served by a constructed store only, and the
\* constructor has migrated as stated unless the write of the migration
\* failed; then the stored version is left as it was.
C25_MigratesUnlessWriteFails ==
  [][/\ (last'.op = "construct" /\ last'.script = <<>>) => C25Migrated
     /\ (last'.op = "construct" /\ last'.script = <<"io">>
         /\ version # STORAGE_VERSION)
        => version' = version
     /\ last'.op = "getRecords" => Loaded]_vars

\* Two records stored under an older schema version have been migrated.
C25_Witness ==
  /\ last.op = "construct"
  /\ last.script = <<>>
  /\ version = STORAGE_VERSION
  /\ Len(records) = 2
  /\ \A i \in 1..2 : "migrated" \in DOMAIN records[i]

-----------------------------------------------------------------------------
(* Claims about listeners and processes, checked under SpecPeers           *)

\* The operations of this process that call saveRecords: the step is one of
\* them.
SavingStep ==
  \/ last'.op \in {"updateRecord", "deleteRecord", "restoreFromBackup", "saveRecords"}
  \/ last'.op = "addRecord" /\ tabs[1].phase = "read" /\ tabs'[1].phase = "idle"

\* The step invoked listener l with the list.
Invoked(l, list) ==
  \E i \in 1..Len(delivered') : delivered'[i] = Invocation(l, list)

\* C26: after a store operation of this process that returns, every
\* registered listener has been invoked with a list equal to the persisted
\* one; no step invokes a listener that is not registered; an operation that
\* raises invokes listeners with the persisted list only.
C26_ListenersSeePersistedList ==
  [][SavingStep
     => /\ last'.result = "ok" => \A l \in Registered : Invoked(l, records')
        /\ \A i \in 1..Len(delivered') : delivered'[i].listener \in Registered
        /\ last'.result = "raised"
           => \A i \in 1..Len(delivered') : delivered'[i].list = records']_vars

\* The same up to the order of the list: every list handed to a listener
\* holds the persisted records, sorted by id.
NotifiedUpToOrder ==
  [][SavingStep
     => /\ last'.result = "ok"
           => \A l \in Registered : \E i \in 1..Len(delivered') :
                 /\ delivered'[i].listener = l
                 /\ IsPermutation(delivered'[i].list, records')
        /\ \A i \in 1..Len(delivered') :
              /\ delivered'[i].listener \in Registered
              /\ delivered'[i].list = SortById(delivered'[i].list)
        /\ last'.result = "raised"
           => \A i \in 1..Len(delivered') :
                 IsPermutation(delivered'[i].list, records')]_vars

\* C27: a notification made while a throwing listener is registered invokes
\* every registered listener, and the operation that made it returns if its
\* writes succeeded; in the store and over the alternative transport.
C27_DeliveryIsolatesListeners ==
  [][(/\ SavingStep \/ last'.op = "transport.saveAttendance"
      /\ Registered \cap Throwers # {}
      /\ last'.script = <<>>
      /\ delivered' # <<>>)
     => /\ \A l \in Registered : \E i \in 1..Len(delivered') :
              delivered'[i].listener = l
        /\ last'.result = "ok"]_vars

\* The store's own notifications do isolate the listeners.
StoreDeliveryIsolatesListeners ==
  [][(/\ SavingStep
      /\ Registered \cap Throwers # {}
      /\ last'.script = <<>>
      /\ delivered' # <<>>)
     => /\ \A l \in Registered : \E i \in 1..Len(delivered') :
              delivered'[i].listener = l
        /\ last'.result = "ok"]_vars

\* C28: the write of an addRecord that returns persists what its process had
\* read, with the record pushed, whatever the records key holds by then.
C28_LaterWriteWins ==
  [][(last'.op = "addRecord" /\ last'.result = "ok")
     => \E p \in Tabs : /\ tabs[p].phase = "read"
                        /\ tabs'[p].phase = "idle"
                        /\ records' = Pushed(p)]_vars

\* A lost update: the record the other process had added, persisted when
\* this addRecord made its write, is absent after it.
C28_Witness ==
  /\ last.op = "addRecord"
  /\ last.result = "ok"
  /\ \E q \in Tabs :
        /\ tabs[q].phase = "idle"
        /\ tabs[q].rec # last.rec
        /\ \E i \in 1..Len(last.list) : last.list[i] = tabs[q].rec
        /\ \A i \in 1..Len(records) : records[i] # tabs[q].rec

\* C29: the handler of a storage event never raises; on an event of the
\* records key whose new value is the JSON of a list it invokes every
\* registered listener with the list the other process wrote, on an event of
\* another key or with an unparsable value it invokes none; and every queued
\* storage event is handled eventually.
C29_StorageEventsReachListeners ==
  /\ [][last'.op = "storageEvent"
        => /\ last'.result = "ok"
           /\ IF Head(events).key = RecordsKey /\ Head(events).kind = "list"
              THEN delivered' = NotifyListeners(listeners, Head(events).written)
              ELSE delivered' = <<>>]_vars
  /\ (events # <<>>) ~> (last.op = "storageEvent")

\* Both listeners have been handed the two records the other process wrote.
C29_Witness ==
  /\ last.op = "storageEvent"
  /\ last.flag
  /\ Len(last.payload) = 2
  /\ Len(delivered) = 2
  /\ \A i \in 1..2 : Len(delivered[i].list) = 2

\* ---------------------------------------------------------------------------
\* Statistics (SpecTally)
\* ---------------------------------------------------------------------------

RECURSIVE SumOver(_, _)
SumOver(f, S) ==
  IF S = {} THEN 0
  ELSE LET x == CHOOSE y \in S : TRUE IN f[x] + SumOver(f, S \ {x})

\* The role counts are the ten fixed roles', and they add up to `total`.
TenCountsSumTo(byRole, total) ==
  /\ DOMAIN byRole = TenRoles
  /\ SumOver(byRole, TenRoles) = total

\* `rate` is onTime / total x 100, and 0 when total is 0.
IsRate(rate, onTime, total) ==
  IF total = 0 THEN rate.num = 0
  ELSE rate.num * total = onTime * 100 * rate.den

Tallying == last.op \in {"getDailyStats", "getPrefectStats"}

\* C30: for every record set, daily and per-prefect statistics satisfy
\* onTime + late = total, report a count for each of the ten fixed roles whose
\* sum equals total, and (where the result has a rate: per-prefect statistics)
\* report a rate of onTime / total x 100, 0 when total is 0.
C30_StatisticsAddUp ==
  /\ last.op = "getDailyStats" =>
       /\ last.stats.onTime + last.stats.late = last.stats.total
       /\ TenCountsSumTo(last.stats.byRole, last.stats.total)
  /\ last.op = "getPrefectStats" =>
       /\ last.stats.onTimeDays + last.stats.lateDays = last.stats.totalDays
       /\ TenCountsSumTo(last.stats.roles, last.stats.totalDays)
       /\ IsRate(last.stats.attendanceRate, last.stats.onTimeDays,
                 last.stats.totalDays)

\* What does hold for every record set: the halves add up, the ten roles are
\* all reported and count the counted records whose role is one of the ten
\* (each other role met is an extra key), the per-prefect rate is
\* onTime / total x 100 or 0, and the daily statistics carry no rate.
CountedOfDaily ==
  SelectSeq(GetRecords(records), LAMBDA r : r.date = last.count)

CountedOfPrefect ==
  SelectSeq(GetRecords(records),
            LAMBDA r : Includes(CharCodes(r.prefectNumber),
                                CharCodes(last.prefectNumber)))

TenCountsOf(byRole, counted) ==
  /\ TenRoles \subseteq DOMAIN byRole
  /\ \A role \in TenRoles :
        byRole[role] = Len(SelectSeq(counted, LAMBDA r : r.role = role))
  /\ DOMAIN byRole \ TenRoles = {counted[i].role : i \in DOMAIN counted} \ TenRoles

StatisticsOfTheTenRoles ==
  /\ last.op = "getDailyStats" =>
       /\ last.stats.total = Len(CountedOfDaily)
       /\ last.stats.onTime + last.stats.late = last.stats.total
       /\ TenCountsOf(last.stats.byRole, CountedOfDaily)
       /\ "attendanceRate" \notin DOMAIN last.stats
  /\ last.op = "getPrefectStats" =>
       /\ last.stats.totalDays = Len(CountedOfPrefect)
       /\ last.stats.onTimeDays + last.stats.lateDays = last.stats.totalDays
       /\ TenCountsOf(last.stats.roles, CountedOfPrefect)
       /\ IsRate(last.stats.attendanceRate, last.stats.onTimeDays,
                 last.stats.totalDays)

\* Reached: statistics over records that all have one of the ten roles, where
\* the statement holds; over no record at all; and with a rate strictly
\* between 0 and 100.
TalliedTenRolesOnly ==
  /\ last.op = "getDailyStats"
  /\ last.stats.total = MaxTally
  /\ DOMAIN last.stats.byRole = TenRoles

TalliedNothing ==
  /\ last.op = "getPrefectStats"
  /\ last.stats.totalDays = 0
  /\ records # <<>>

TalliedHalf ==
  /\ last.op = "getPrefectStats"
  /\ last.stats.onTimeDays = 1
  /\ last.stats.lateDays = 1

\* ---------------------------------------------------------------------------
\* The two transports (SpecTransports)
\* ---------------------------------------------------------------------------

RecordSet(list) == {list[i] : i \in 1..Len(list)}

\* C31: for the same sequence of save (with an explicit timestamp), update and
\* delete calls, the record set observed through the alternative transport is
\* the one observed through local storage.
C31_TransportsAgree ==
  RecordSet(GetAttendanceRecords(remote)) = RecordSet(Live)

\* Reached: after a save whose timestamp is the current time the two domains
\* hold the same record, and a delete of it succeeds on both and leaves it in
\* the out-of-process store only.
SavedAlikeOnBoth ==
  /\ last.op = "save"
  /\ Live # <<>>
  /\ RecordSet(GetAttendanceRecords(remote)) = RecordSet(Live)

DeletedLocallyOnly ==
  /\ last.op = "delete"
  /\ last.result = "ok"
  /\ last.arg = "ok"
  /\ \E i \in 1..Len(remote) : remote[i].id = last.id
  /\ \A i \in 1..Len(Live) : Live[i].id # last.id

\* ---------------------------------------------------------------------------
\* The admin guard, call by call (SpecAuth)
\* ---------------------------------------------------------------------------

\* The call about to be made meets no lockout in effect.
NotLocked == now >= StoredNumber(adminStore.lockout)

WrongPinCall == last'.op = "auth" /\ last'.pin # ADMIN_PIN /\ NotLocked

\* C32: a wrong PIN while no lockout is in effect increases the persisted
\* failure counter by exactly 1; a new value below 10 fails with InvalidPin,
\* reports 10 - counter remaining attempts (1..9) and sets no lockout; a new
\* value that reaches 10 sets the expiry to exactly 15 minutes after the call
\* and fails with LockedOut.
C32_WrongPinCounts ==
  [][WrongPinCall
       => /\ adminStore'.failed = StoredNumber(adminStore.failed) + 1
          /\ adminStore'.failed < MAX_FAILED_ATTEMPTS
               => /\ last'.result = "InvalidPin"
                  /\ last'.remaining = MAX_FAILED_ATTEMPTS - adminStore'.failed
                  /\ last'.remaining \in 1..9
                  /\ adminStore'.lockout = adminStore.lockout
                  /\ adminStore'.lockout = OmittedNum
          /\ adminStore'.failed >= MAX_FAILED_ATTEMPTS
               => /\ last'.result = "LockedOut"
                  /\ adminStore'.lockout = now + LOCKOUT_DURATION]_vars

\* Reached: the ninth wrong PIN in a row has reported one remaining attempt.
C32_Witness ==
  /\ last.op = "auth"
  /\ last.result = "InvalidPin"
  /\ last.remaining = 1
  /\ adminStore.failed = MAX_FAILED_ATTEMPTS - 1

\* Reached: the tenth has set the lockout.
C32_WitnessTenth ==
  /\ last.op = "auth"
  /\ last.result = "LockedOut"
  /\ adminStore.failed = MAX_FAILED_ATTEMPTS
  /\ adminStore.lockout = now + LOCKOUT_DURATION

\* C33: the failure counter goes down only in a successful authentication,
\* never when a lockout runs out: the first wrong PIN after the window, the
\* counter being at 10 or more, starts a new 15-minute lockout at once.
C33_OnlySuccessResetsTheCounter ==
  [][/\ StoredNumber(adminStore'.failed) < StoredNumber(adminStore.failed)
          => last'.op = "auth" /\ last'.result = "ok"
     /\ (WrongPinCall /\ StoredNumber(adminStore.failed) >= MAX_FAILED_ATTEMPTS)
          => /\ last'.result = "LockedOut"
             /\ adminStore'.lockout = now + LOCKOUT_DURATION
             /\ adminStore'.failed > MAX_FAILED_ATTEMPTS]_vars

\* Reached: a lockout has run out and the next wrong PIN, the eleventh, has
\* been answered with a new lockout.
C33_Witness ==
  /\ last.op = "auth"
  /\ last.result = "LockedOut"
  /\ last.pin # ADMIN_PIN
  /\ last.lateWrong
  /\ adminStore.failed = MAX_FAILED_ATTEMPTS + 1
  /\ adminStore.lockout = now + LOCKOUT_DURATION

\* ---------------------------------------------------------------------------
\* saveRecords and its error handling, step by step (SpecSave)
\* ---------------------------------------------------------------------------

\* The saveRecords frames on the stack.
Nesting == Len(SelectSeq(pc, LAMBDA fr : fr.at \in {"saveRecords", "saveRecords.write",
                                                   "saveRecords.catch"}))

\* C34: every saveRecords call terminates in every storage state: the mutual
\* recursion saveRecords -> handleQuotaExceeded / attemptDataRecovery ->
\* saveRecords is bounded, so a call never fills the call stack, however deep
\* the host makes it.
C34_SaveRecursionIsBounded == Len(pc) < MaxFrames

\* Where the recursion does end: a nested saveRecords is called only to evict
\* (pressure or a quota error, with more than EvictAbove live records) or to
\* recover (another write error, with some backup entry); in every other
\* storage state the handlers return and the call has one saveRecords frame.
SavesNestOnlyToEvictOrRecover ==
  [][(pc # <<>> /\ Nesting' > Nesting)
       => \/ Condition \in {"pressure", "quota"} /\ Len(Live) > EvictAbove
          \/ Condition = "io" /\ (backups # {} \/ metadata)]_vars

\* Reached: the stack is full of nested saveRecords calls under lasting quota
\* pressure, and of recovery calls on a write that keeps failing.
StackFullOfEvictions ==
  /\ Len(pc) = MaxFrames
  /\ Condition = "pressure"
  /\ Top = Frame("saveRecords", "evict")

StackFullOfRecoveries ==
  /\ Len(pc) = MaxFrames
  /\ Condition = "io"
  /\ Top = Frame("saveRecords", "recover")

\* ---------------------------------------------------------------------------
\* The fingerprint after writes and after recovery (SpecStore, SpecVerify)
\* ---------------------------------------------------------------------------

\* The most recent call was a write that returned without error.
SucceededWrite ==
  /\ last.op \in {"saveRecords", "addRecord", "updateRecord", "deleteRecord"}
  /\ last.result = "ok"

\* The stored fingerprint is that of the list getRecords returns.
FingerprintOfLive ==
  /\ integrityHash.set
  /\ GenerateDataHash(integrityHash.of) = GenerateDataHash(Live)

\* C35: after every successful saveRecords, addRecord, updateRecord (with any
\* partial fields, one that empties a required field included) or
\* deleteRecord, the stored fingerprint equals the fingerprint of the list
\* getRecords returns, so that a verifyDataIntegrity right afterwards meets no
\* mismatch.
C35_WritesLeaveMatchingFingerprint == SucceededWrite => FingerprintOfLive

\* The same for the writes whose list holds valid records only.
WritesOfValidRecordsLeaveMatchingFingerprint ==
  (SucceededWrite /\ records = Live) => FingerprintOfLive

\* Reached: an update has emptied the prefect number of a stored record and
\* has returned without error.
EmptiedByUpdate ==
  /\ last.op = "updateRecord"
  /\ last.result = "ok"
  /\ records # Live

\* C36: whenever verifyDataIntegrity returns true the stored fingerprint equals
\* the fingerprint of the live records, after recovery from a backup entry and
\* after recovery without one alike, so that a second run with no write in
\* between meets no mismatch.
C36_VerifiedMeansMatching ==
  (last.op = "verifyDataIntegrity" /\ last.flag) => FingerprintOfLive

\* The same on a store that holds some 'attendance_backup_' key.
VerifiedWithBackupKeyMeansMatching ==
  (/\ last.op = "verifyDataIntegrity"
   /\ last.flag
   /\ (backups # {} \/ metadata))
    => FingerprintOfLive

\* Reached: a mismatch met with no 'attendance_backup_' key, answered true and
\* left as it was; and a mismatch healed from a snapshot.
VerifiedAndStillMismatched ==
  /\ last.op = "verifyDataIntegrity"
  /\ last.flag
  /\ Mismatch
  /\ backups = {} /\ ~metadata

VerifiedAndHealed ==
  /\ last.op = "verifyDataIntegrity"
  /\ last.flag
  /\ records = <<NewRecord(1)>>
  /\ integrityHash = HashOf(<<NewRecord(1)>>)
  /\ metadata

\* ---------------------------------------------------------------------------
\* Snapshot keys and the metadata key (SpecBackup)
\* ---------------------------------------------------------------------------

\* The snapshots of `before` whose key is gone in `after`.
Removed(before, after) ==
  {b \in before : \A c \in after : c.ts # b.ts \/ c.manual # b.manual}

\* C37: pruning and latest-backup selection act on snapshot entries only:
\* no step removes the backup-metadata entry, the metadata entry takes none
\* of the KeepBackups retained slots (where a snapshot was removed,
\* KeepBackups snapshots remain), and recovery never replaces the live
\* records with an empty list read from the metadata entry (what it writes
\* is the record list of a stored snapshot).
C37_BackupCodeActsOnSnapshotsOnly ==
  [][/\ metadata => metadata'
     /\ Removed(backups, backups') # {} => Cardinality(backups') >= KeepBackups
     /\ (RecoveryRan(last') /\ GetRecords(records') # Live)
          => \E b \in backups : GetRecords(records') = b.records]_vars

\* The same for the removal of snapshots alone: pruning leaves the most recent
\* snapshots and at least KeepBackups - 1 of them.
PruningKeepsTheMostRecent ==
  [][/\ Removed(backups, backups') # {}
          => Cardinality(backups') >= KeepBackups - 1
     /\ \A r \in Removed(backups, backups'), b \in backups' : r.ts <= b.ts]_vars

\* Reached: the metadata entry has been pruned away; a fifth snapshot has been
\* pruned although only KeepBackups existed; the live records have been
\* replaced by the empty list although no snapshot is empty.
MetadataPruned ==
  /\ ~metadata
  /\ Cardinality(backups) = KeepBackups

FourSnapshotsLeft ==
  /\ metadata
  /\ last.op = "performAutomaticBackup"
  /\ last.script = <<>>
  /\ Cardinality(backups) = KeepBackups - 1

WipedFromMetadata ==
  /\ RecoveryRan(last)
  /\ Live = <<>>
  /\ \A b \in backups : b.records # <<>>

\* ---------------------------------------------------------------------------
\* saveRecords and the list it is given (SpecPeers)
\* ---------------------------------------------------------------------------

\* A direct saveRecords call has returned.
SaveReturned == last.op = "saveRecords" /\ last.result = "ok"

\* C38: when saveRecords(records) has returned, the caller's list is as it was
\* given, in content and in order; the persisted list is in the order given;
\* and every listener was invoked with a list in that persisted order.
C38_SaveLeavesListAndOrder ==
  SaveReturned
    => /\ last.left = last.list
       /\ records = last.list
       /\ \A i \in 1..Len(delivered) : delivered[i].list = records

\* The same for the persisted list alone, and for the caller's list and the
\* listeners' up to order.
SavePersistsInOrderGiven ==
  SaveReturned
    => /\ records = last.list
       /\ IsPermutation(last.left, last.list)
       /\ \A i \in 1..Len(delivered) : delivered[i].list = last.left

\* Reached: a saveRecords call has returned, the list it was given was not in
\* the order of the ids, and a listener was invoked.
SavedOutOfIdOrder ==
  /\ SaveReturned
  /\ last.list # SortById(last.list)
  /\ delivered # <<>>

\* ---------------------------------------------------------------------------
\* Restore, recovery and the record invariants (SpecRestore)
\* ---------------------------------------------------------------------------

UniqueIds(recs) == \A i, j \in 1..Len(recs) : i # j => recs[i].id # recs[j].id

UniqueTriples(recs) ==
  \A i, j \in 1..Len(recs) : i # j => Triple(recs[i]) # Triple(recs[j])

\* restoreFromBackup has returned; a saveRecords whose write failed has run
\* attemptDataRecovery.
RestoreReturned == last.op = "restoreFromBackup" /\ last.result = "ok"

\* C39: once restoreFromBackup or a recovery from a snapshot has completed, no
\* two live records share an id and no two share a (prefectNumber, role,
\* date) triple.
C39_RestoreAndRecoveryKeepRecordsUnique ==
  (RestoreReturned \/ RecoveryRan(last))
    => UniqueIds(Live) /\ UniqueTriples(Live)

\* The same for a backup string whose valid entries repeat neither an id nor
\* a triple.
RestoreOfDistinctEntriesIsUnique ==
  (/\ RestoreReturned
   /\ UniqueIds(SelectSeq(ParseEach(last.payload), IsValidRecord))
   /\ UniqueTriples(SelectSeq(ParseEach(last.payload), IsValidRecord)))
    => UniqueIds(Live) /\ UniqueTriples(Live)

\* Reached: restoreFromBackup has returned and two live records share an id;
\* it has returned and two share a triple; a recovery has rewritten the
\* records from a snapshot and two live records share an id.
RestoredAnIdTwice == RestoreReturned /\ ~UniqueIds(Live)

RestoredATripleTwice == RestoreReturned /\ UniqueIds(Live) /\ ~UniqueTriples(Live)

RecoveredAnIdTwice ==
  /\ RecoveryRan(last)
  /\ last.list # Live
  /\ ~UniqueIds(Live)

\* ---------------------------------------------------------------------------
\* Two processes saving the same attendance (SpecRace)
\* ---------------------------------------------------------------------------

\* Both calls are over.
BothFinished == \A p \in Tabs : tabs[p].phase \in {"done", "duplicate", "failed"}

\* The persisted records of the triple both calls are about.
OfTheTriple ==
  {i \in 1..Len(Live) : Triple(Live[i]) = Triple(NewRecord(0))}

\* C40: once the save calls of both processes have finished, at most one
\* record with their (prefectNumber, role, date) triple is persisted, under
\* every interleaving of their storage accesses.
C40_OneRecordOfTheTripleAfterBoth ==
  BothFinished => Cardinality(OfTheTriple) <= 1

\* What every interleaving keeps: the persisted records are records the two
\* calls built, no id is stored twice, and a process whose check found the
\* triple stores nothing.
RacePersistsOwnRecordsOnce ==
  /\ \A i \in 1..Len(Live) : \E p \in Tabs : Live[i] = tabs[p].rec
  /\ UniqueIds(Live)
  /\ \A p \in Tabs : tabs[p].phase = "duplicate" => tabs[p].rec = NoRecord

\* On a host that fails no write the retention cleanup has emptied the store
\* by the time both calls are over (SpecRaceNoFault).
RaceEndsEmptyWithoutFaults == BothFinished => Live = <<>>

\* Reached: both calls returned their record and both records are persisted.
BothSavedTheTriple ==
  /\ \A p \in Tabs : tabs[p].phase = "done"
  /\ Cardinality(OfTheTriple) = Cardinality(Tabs)

====
